---- MODULE Spec2Model ----
(***************************************************************************)
(* A model of the analytical core of the wekeza trading backend:           *)
(*   - backtesting/engine.py      BacktestEngine (SpecBT)                  *)
(*   - agents/portfolio_manager.py PortfolioManagerAgent (SpecPM)          *)
(*   - data/volume_profile.py     build_volume_profile (SpecVP)            *)
(*                                                                         *)
(* Numbers.  The engine's floats are modelled in fixed point: a price or   *)
(* an amount of money is an integer number of cents, a rate an integer     *)
(* number of basis points, and every product with a rate is rounded down   *)
(* to the cent (Scale).  int(x) of the source is integer division.         *)
(* The decision engine and the volume profile are modelled in exact        *)
(* rational arithmetic (a pair <<numerator, denominator>>).                *)
(***************************************************************************)
EXTENDS Integers, Sequences, FiniteSets, TLC

VARIABLES
    inp,             \* the arguments of the run: engine parameters, bars, strategy, dates
    capital,         \* BacktestEngine.capital
    equity_history,  \* BacktestEngine.equity_history
    trades,          \* BacktestEngine.trades
    open_positions,  \* BacktestEngine.open_positions: symbol -> Trade
    pc,              \* where run_backtest stands
    data,            \* run_backtest's local `data` after the date filter (row numbers)
    i,               \* run_backtest's loop index (0-based, as in the source)
    clock,           \* the wall clock datetime.now() reads
    calls,           \* strategy_func invocations of the current run
    opens,           \* history: the loop index at which each position of the run opened
    results,         \* what each finished run_backtest call gave its caller
    shared,          \* the results whose trades and equity_curve are the engine's own lists
    pm_call,         \* the last call made on the PortfolioManagerAgent and its result
    portfolio,       \* PortfolioManagerAgent.portfolio
    vp_call,         \* the last build_volume_profile call and its result
    of_call,         \* the last order-flow call, its arguments and its outcome
    crew_call,       \* the TradingCrew.analyze_symbol call: its caller and its outcome
    crew_pc,         \* where TradingCrew.analyze_symbol stands
    tasks,           \* the state of each of the three analyses handed to a thread
    agent_results,   \* what each analysis gave back
    decisions        \* the make_trade_decision invocations of the call, in order

bt_vars == <<inp, capital, equity_history, trades, open_positions, pc, data, i,
             clock, calls, opens, results, shared>>
pm_vars == <<pm_call, portfolio>>
vp_vars == <<vp_call>>
of_vars == <<of_call>>
crew_vars == <<crew_call, crew_pc, tasks, agent_results, decisions>>
vars == <<bt_vars, pm_vars, vp_vars, of_vars, crew_vars>>

(***************************************************************************)
(* Shared helpers                                                          *)
(***************************************************************************)
None == 0 - 1

BP == 100 * 100

Abs(x) == IF x < 0 THEN 0 - x ELSE x

Min(a, b) == IF a <= b THEN a ELSE b

Max(a, b) == IF a >= b THEN a ELSE b

\* x * num / 10000 rounded down, computed without leaving 32 bits
Scale(x, num) == (x \div BP) * num + ((x % BP) * num) \div BP

\* x * num / den rounded down, computed without leaving 32 bits
MulDiv(x, num, den) == (x \div den) * num + ((x % den) * num) \div den

RECURSIVE SumSeq(_)
SumSeq(s) == IF s = <<>> THEN 0 ELSE Head(s) + SumSeq(Tail(s))

(***************************************************************************)
(* Exact rationals <<n, d>> with d > 0, kept in lowest terms               *)
(***************************************************************************)
RECURSIVE Gcd(_, _)
Gcd(a, b) == IF b = 0 THEN a ELSE Gcd(b, a % b)

Rat(n, d) ==
    LET g == Gcd(Abs(n), Abs(d))
        sgn == IF d < 0 THEN 0 - 1 ELSE 1
    IN  IF n = 0 THEN <<0, 1>> ELSE <<sgn * (n \div g), sgn * (d \div g)>>

RInt(n) == <<n, 1>>

RAdd(x, y) == Rat(x[1] * y[2] + y[1] * x[2], x[2] * y[2])

RSub(x, y) == Rat(x[1] * y[2] - y[1] * x[2], x[2] * y[2])

RMul(x, y) == Rat(x[1] * y[1], x[2] * y[2])

RDiv(x, y) == Rat(x[1] * y[2], x[2] * y[1])

RLt(x, y) == x[1] * y[2] < y[1] * x[2]

RLe(x, y) == x[1] * y[2] <= y[1] * x[2]

RAbs(x) == <<Abs(x[1]), x[2]>>

\* a variant of RMin that forgets its first argument
RMinUncapped(x, y) == y

RMin(x, y) == IF RLe(x, y) THEN x ELSE y

\* int(x) of a float: truncation towards zero
RTrunc(x) == IF x[1] >= 0 THEN x[1] \div x[2] ELSE 0 - ((0 - x[1]) \div x[2])

(***************************************************************************)
(* PortfolioManagerAgent (agents/portfolio_manager.py)                     *)
(***************************************************************************)
\* the default risk parameters, lines 53-62
Config ==
    [max_position_size |-> <<1, 10>>,
     max_correlation |-> <<17, 20>>,
     risk_per_trade |-> <<1, 50>>,
     min_confidence |-> <<3, 5>>]

\* the portfolio of a new manager, lines 65-70 (positions: the symbols held)
NewPortfolio ==
    [equity |-> 100000, positions |-> {}, daily_pnl |-> 0, total_exposure |-> 0]

\* lines 134-138
Weights == [tape_reader |-> <<2, 5>>, chartist |-> <<7, 20>>, macro |-> <<1, 4>>]

\* signal_map.get(direction, 0), lines 161-165
SignalMap(direction) ==
    CASE direction = "bullish" -> <<1, 1>>
      [] direction = "bullish_breakout" -> <<6, 5>>
      [] direction = "bearish" -> <<0 - 1, 1>>
      [] direction = "bearish_breakout" -> <<0 - 6, 5>>
      [] OTHER -> <<0, 1>>

\* 'bullish' in d, 'bearish' in d
HasBullish(direction) == direction \in {"bullish", "bullish_breakout"}

HasBearish(direction) == direction \in {"bearish", "bearish_breakout"}

\* a variant of Confident that lets a confidence of exactly 0.5 count
ConfidentAtHalf(c) == RLe(<<1, 2>>, c)

\* c > 0.5, lines 181-182
Confident(c) == RLt(<<1, 2>>, c)

\* a variant of TradingAllowed that never reads the flag
TradingAllowedIgnored(macro) == TRUE

\* macro_signal.get('macro_signal', {}).get('trading_allowed', True), line 149
\* (the flag is "true", "false" or "missing" when the key is absent)
TradingAllowed(macro) ==
    IF macro.trading_allowed = "missing" THEN TRUE ELSE macro.trading_allowed = "true"

\* the record returned at lines 153-158
VolatilityHalt ==
    [final_decision |-> "no_trade",
     reason |-> "Volatility filter active - near high-impact event",
     confidence |-> <<0, 1>>,
     position_size |-> 0]

\* aggregate_signals, lines 111-220
AggregateSignals(cfg, tape, chart, macro) ==
    IF ~TradingAllowed(macro) THEN VolatilityHalt
    ELSE
      LET tr_value == RMul(RMul(SignalMap(tape.direction), tape.confidence),
                           Weights.tape_reader)
          ch_value == RMul(RMul(SignalMap(chart.direction), chart.strength),
                           Weights.chartist)
          macro_value == RMul(RMul(SignalMap(macro.direction), macro.confidence),
                              Weights.macro)
          signals == <<[d |-> tape.direction, c |-> tape.confidence],
                       [d |-> chart.direction, c |-> chart.strength],
                       [d |-> macro.direction, c |-> macro.confidence]>>
          bullish_count ==
              Cardinality({k \in 1..3 : HasBullish(signals[k].d) /\ Confident(signals[k].c)})
          bearish_count ==
              Cardinality({k \in 1..3 : HasBearish(signals[k].d) /\ Confident(signals[k].c)})
          bonus == IF bullish_count >= 2 THEN <<1, 5>>
                   ELSE IF bearish_count >= 2 THEN <<0 - 1, 5>>
                   ELSE <<0, 1>>
          total_signal == RAdd(RAdd(RAdd(tr_value, ch_value), macro_value), bonus)
          avg_confidence ==
              RDiv(RAdd(RAdd(tape.confidence, chart.strength), macro.confidence), <<3, 1>>)
          decision ==
              IF RLt(RAbs(total_signal), <<3, 10>>) \/ RLt(avg_confidence, cfg.min_confidence)
              THEN [final_decision |-> "no_trade", direction |-> "neutral",
                    confidence |-> avg_confidence]
              ELSE IF RLt(<<0, 1>>, total_signal)
              THEN [final_decision |-> "long", direction |-> "bullish",
                    confidence |->
                        RMin(<<19, 20>>,
                             RAdd(avg_confidence, RMul(RInt(bullish_count - 1), <<1, 10>>)))]
              ELSE [final_decision |-> "short", direction |-> "bearish",
                    confidence |->
                        RMin(<<19, 20>>,
                             RAdd(avg_confidence, RMul(RInt(bearish_count - 1), <<1, 10>>)))]
      IN  [final_decision |-> decision.final_decision,
           direction |-> decision.direction,
           confidence |-> decision.confidence,
           signal_strength |-> RAbs(total_signal),
           agreement |-> <<bullish_count, bearish_count>>,
           agent_signals |->
               [tape_reader |-> [direction |-> tape.direction, confidence |-> tape.confidence],
                chartist |-> [direction |-> chart.direction, confidence |-> chart.strength],
                macro |-> [direction |-> macro.direction, confidence |-> macro.confidence]]]

\* a variant of CapPosition that leaves the position as sized
CapPositionOff(cfg, equity, entry_price, units, position_value, position_pct) ==
    [units |-> units, position_value |-> position_value, position_pct |-> position_pct]

\* lines 266-270: the cap on the position
CapPosition(cfg, equity, entry_price, units, position_value, position_pct) ==
    IF RLt(cfg.max_position_size, position_pct)
    THEN [units |-> RDiv(RMul(RInt(equity), cfg.max_position_size), entry_price),
          position_value |-> RMul(RInt(equity), cfg.max_position_size),
          position_pct |-> cfg.max_position_size]
    ELSE [units |-> units, position_value |-> position_value,
          position_pct |-> position_pct]

\* lines 254-257
StopDistance(entry_price, stop_loss) ==
    LET stop_distance == RAbs(RSub(entry_price, stop_loss))
    IN  IF stop_distance = <<0, 1>> THEN RMul(entry_price, <<1, 100>>)
        ELSE stop_distance

\* calculate_position_size, lines 229-280
CalculatePositionSize(cfg, pf, symbol, entry_price, stop_loss, confidence) ==
    LET equity == pf.equity
        risk_amount == RMul(RMul(RInt(equity), cfg.risk_per_trade), confidence)
        stop_distance == StopDistance(entry_price, stop_loss)
        units == RDiv(risk_amount, stop_distance)
        position_value == RMul(units, entry_price)
        position_pct == RDiv(position_value, RInt(equity))
        capped == CapPosition(cfg, equity, entry_price, units, position_value,
                              position_pct)
    IN  [symbol |-> symbol,
         units |-> RTrunc(capped.units),
         position_value |-> capped.position_value,
         position_pct |-> capped.position_pct,
         risk_amount |-> risk_amount,
         stop_loss |-> stop_loss,
         stop_distance_pct |-> RMul(RDiv(stop_distance, entry_price), <<100, 1>>)]

\* check_correlation, lines 282-324; matrix: symbol -> (symbol -> correlation)
RECURSIVE MaxCorr(_, _, _)
MaxCorr(symbol, matrix, held) ==
    IF held = {} THEN <<0, 1>>
    ELSE LET pos == CHOOSE x \in held : TRUE
             rest == MaxCorr(symbol, matrix, held \ {pos})
         IN  IF symbol \in DOMAIN matrix /\ pos \in DOMAIN matrix[symbol]
                /\ RLt(rest, RAbs(matrix[symbol][pos]))
             THEN RAbs(matrix[symbol][pos])
             ELSE rest

CheckCorrelation(cfg, pf, symbol, matrix) ==
    IF pf.positions = {} THEN [allowed |-> TRUE, reason |-> "No existing positions"]
    ELSE IF RLt(cfg.max_correlation, MaxCorr(symbol, matrix, pf.positions))
    THEN [allowed |-> FALSE, reason |-> "High correlation with existing position"]
    ELSE [allowed |-> TRUE, reason |-> "Acceptable correlation"]

\* lines 388-397: the stop from the key levels
RECURSIVE RMaxOf(_)
RMaxOf(S) ==
    LET x == CHOOSE y \in S : TRUE
    IN  IF S = {x} THEN x
        ELSE LET m == RMaxOf(S \ {x}) IN IF RLt(m, x) THEN x ELSE m

RECURSIVE RMinOf(_)
RMinOf(S) ==
    LET x == CHOOSE y \in S : TRUE
    IN  IF S = {x} THEN x
        ELSE LET m == RMinOf(S \ {x}) IN IF RLt(x, m) THEN x ELSE m

\* a variant of PlaceStop that takes a level at the price itself
PlaceStopAtPrice(direction, key_levels, current_price) ==
    IF direction = "bullish"
    THEN LET support_levels == {l \in key_levels : RLe(l, current_price)}
         IN  IF support_levels # {} THEN RMaxOf(support_levels)
             ELSE RMul(current_price, <<49, 50>>)
    ELSE LET resistance_levels == {l \in key_levels : RLe(current_price, l)}
         IN  IF resistance_levels # {} THEN RMinOf(resistance_levels)
             ELSE RMul(current_price, <<51, 50>>)

PlaceStop(direction, key_levels, current_price) ==
    IF direction = "bullish"
    THEN LET support_levels == {l \in key_levels : RLt(l, current_price)}
         IN  IF support_levels # {} THEN RMaxOf(support_levels)
             ELSE RMul(current_price, <<49, 50>>)
    ELSE LET resistance_levels == {l \in key_levels : RLt(current_price, l)}
         IN  IF resistance_levels # {} THEN RMinOf(resistance_levels)
             ELSE RMul(current_price, <<51, 50>>)

\* current_price=None and correlation_matrix=None, the defaults of lines 338-339
NoPrice == <<None, 1>>

NoMatrix == [s \in {} |-> <<0, 1>>]

\* make_trade_decision, lines 332-423; `now` is datetime.now() at the return
MakeTradeDecision(cfg, pf, symbol, tape, chart, macro, price_arg, matrix, now) ==
    LET aggregated == AggregateSignals(cfg, tape, chart, macro)
        corr_check == CheckCorrelation(cfg, pf, symbol, matrix)
        current_price == IF price_arg = NoPrice THEN chart.current_price ELSE price_arg
        stop_loss == PlaceStop(aggregated.direction, chart.key_levels, current_price)
    IN  IF aggregated.final_decision = "no_trade"
        THEN [symbol |-> symbol,
              action |-> "NO_TRADE",
              reason |-> IF "reason" \in DOMAIN aggregated THEN aggregated.reason
                         ELSE "Signals not aligned",
              confidence |-> aggregated.confidence,
              timestamp |-> now]
        ELSE IF DOMAIN matrix # {} /\ ~corr_check.allowed
        THEN [symbol |-> symbol,
              action |-> "NO_TRADE",
              reason |-> corr_check.reason,
              confidence |-> aggregated.confidence,
              timestamp |-> now]
        ELSE [symbol |-> symbol,
              action |-> IF aggregated.direction = "bullish" THEN "BUY" ELSE "SELL",
              direction |-> aggregated.direction,
              confidence |-> aggregated.confidence,
              signal_strength |-> aggregated.signal_strength,
              entry_price |-> current_price,
              stop_loss |-> stop_loss,
              position |-> CalculatePositionSize(cfg, pf, symbol, current_price,
                                                 stop_loss, aggregated.confidence),
              agent_agreement |-> aggregated.agreement,
              agent_signals |-> aggregated.agent_signals,
              risk_reward_ratio |->
                  RDiv(RAbs(RSub(current_price, stop_loss)),
                       RMul(current_price, <<1, 50>>)),
              timestamp |-> now]

(***************************************************************************)
(* Backtest inputs                                                         *)
(***************************************************************************)
\* bounds of the model
MaxRuns == 2
MaxExtraBars == 1
MaxEvents == 1

\* program constants
MinBars == 100
WindowSize == 60

Symbol == "SPY"

\* BacktestEngine(initial_capital, commission, slippage, risk_per_trade):
\* the defaults of the constructor, and an engine too poor to buy one unit
DefaultEngine ==
    [initial_capital |-> 100000 * 100, commission |-> 10, slippage |-> 5,
     risk_per_trade |-> 200]

PoorEngine ==
    [initial_capital |-> 100 * 100, commission |-> 10, slippage |-> 5,
     risk_per_trade |-> 200]

EngineConfigs == {DefaultEngine, PoorEngine}

\* bar shapes, in cents
Shapes == {"flat", "dip", "spike", "wide"}

ShapeBar(s) ==
    CASE s = "flat"  -> [open |-> 10000, high |-> 10000, low |-> 10000, close |-> 10000]
      [] s = "dip"   -> [open |-> 10000, high |-> 10000, low |-> 9700,  close |-> 9800]
      [] s = "spike" -> [open |-> 10000, high |-> 10300, low |-> 10000, close |-> 10200]
      [] s = "wide"  -> [open |-> 10000, high |-> 10300, low |-> 9700,  close |-> 10000]
      [] s = "drift" -> [open |-> 10000, high |-> 10100, low |-> 10000, close |-> 10100]

Patterns == [1..MaxEvents -> Shapes]

\* the frame handed to run_backtest: n rows; the rows after the first replayed
\* one carry the pattern, the last row drifts up, the others are flat; `swap`
\* exchanges the timestamps of two neighbouring rows
RowShape(d, k) ==
    IF k > WindowSize + 1 /\ k <= WindowSize + 1 + MaxEvents
    THEN d.pattern[k - WindowSize - 1]
    ELSE IF k = d.n THEN "drift"
    ELSE "flat"

RowTimestamp(d, k) ==
    IF d.swap /\ k = WindowSize + 2 THEN (WindowSize + 3) * 1000
    ELSE IF d.swap /\ k = WindowSize + 3 THEN (WindowSize + 2) * 1000
    ELSE k * 1000

Row(d, k) ==
    LET b == ShapeBar(RowShape(d, k))
    IN  [timestamp |-> RowTimestamp(d, k), open |-> b.open, high |-> b.high,
         low |-> b.low, close |-> b.close, volume |-> 1000]

Strategies == {"buy_once", "buy_always", "sell_always", "flaky", "sell_tight"}

\* start_date and end_date are in seconds, None when not given; a given date
\* cuts one row off its end of the frame
FrameSizes == (MinBars - 1)..(MinBars + MaxExtraBars)

Inputs ==
    {d \in [engine : EngineConfigs,
            strategy : Strategies,
            pattern : Patterns,
            n : FrameSizes,
            swap : BOOLEAN,
            start_date : {None, 2},
            end_date : {None} \cup {n - 1 : n \in FrameSizes}] :
        d.end_date \in {None, d.n - 1}}

(***************************************************************************)
(* Strategy functions handed to run_backtest.  Each is a pure function of  *)
(* the window (and of the frame it closes over); "raise" stands for a      *)
(* strategy that throws.                                                   *)
(***************************************************************************)
NoTrade == [action |-> "NO_TRADE", stop_loss |-> None, take_profit |-> None]

Raise == [action |-> "raise", stop_loss |-> None, take_profit |-> None]

StrategyFunc(s, window, first_row) ==
    LET last == window[Len(window)]
    IN  CASE s = "buy_once" ->
                IF window[1] = first_row
                THEN [action |-> "BUY", stop_loss |-> Scale(last.close, 9800),
                      take_profit |-> None]
                ELSE NoTrade
          [] s = "buy_always" ->
                [action |-> "BUY", stop_loss |-> None, take_profit |-> 10200]
          [] s = "sell_always" ->
                [action |-> "SELL", stop_loss |-> Scale(last.close, 10200),
                 take_profit |-> 9800]
          [] s = "flaky" ->
                IF last.low < last.high THEN Raise
                ELSE [action |-> "BUY", stop_loss |-> 9000, take_profit |-> None]
          [] s = "sell_tight" ->
                [action |-> "SELL", stop_loss |-> Scale(last.close, BP - 5),
                 take_profit |-> None]

(***************************************************************************)
(* BacktestEngine.  The methods are state transformers on the record       *)
(* [capital, trades, open_positions, clock] so that a method calling       *)
(* another composes them in the order of the source.                       *)
(***************************************************************************)
Self == [capital |-> capital, trades |-> trades,
         open_positions |-> open_positions, clock |-> clock]

\* datetime.now(): the clock has moved on at every reading
Now(es) == es.clock + 1

\* a variant of reset() that empties the engine's lists where they are
ResetInPlace(eng) ==
    [capital |-> eng.initial_capital,
     equity_history |-> <<eng.initial_capital>>,
     trades |-> <<>>,
     open_positions |-> <<>>,
     new_lists |-> FALSE]

\* reset(), lines 97-102; lines 100-101 bind new list objects (new_lists), so
\* the lists a returned result holds are left as they are
Reset(eng) ==
    [capital |-> eng.initial_capital,
     equity_history |-> <<eng.initial_capital>>,
     trades |-> <<>>,
     open_positions |-> <<>>,
     new_lists |-> TRUE]

\* _close_position, lines 251-281
ExitFill(eng, trade, exit_price) ==
    IF trade.direction = "long"
    THEN Scale(exit_price, BP - eng.slippage)
    ELSE Scale(exit_price, BP + eng.slippage)

ClosePosition(eng, es, symbol, exit_price, reason) ==
    IF symbol \notin DOMAIN es.open_positions THEN es
    ELSE
      LET trade == es.open_positions[symbol]
          fill  == ExitFill(eng, trade, exit_price)
          gross == IF trade.direction = "long"
                   THEN (fill - trade.entry_price) * trade.units
                   ELSE (trade.entry_price - fill) * trade.units
          pnl   == gross - Scale(fill * trade.units, eng.commission)
          closed == [trade EXCEPT !.exit_time = Now(es),
                                  !.exit_price = fill,
                                  !.pnl = pnl,
                                  !.pnl_pct = (pnl * 100) \div ((trade.entry_price * trade.units) \div 100),
                                  !.exit_reason = reason]
      IN  [capital |-> es.capital + pnl,
           trades |-> Append(es.trades, closed),
           open_positions |-> [s \in DOMAIN es.open_positions \ {symbol} |->
                                  es.open_positions[s]],
           clock |-> Now(es)]

\* a variant of StopHit that tests the bar's close instead of its low and high
StopHitOnClose(trade, bar) ==
    IF trade.direction = "long" THEN bar.close <= trade.stop_loss
    ELSE bar.close >= trade.stop_loss

\* _check_stops, lines 227-249: the stop-loss test, then the take-profit test on
\* the trade read at line 232 (a second close finds the position gone)
StopHit(trade, bar) ==
    IF trade.direction = "long" THEN bar.low <= trade.stop_loss
    ELSE bar.high >= trade.stop_loss

TargetHit(trade, bar) ==
    /\ trade.take_profit # None
    /\ trade.take_profit # 0
    /\ IF trade.direction = "long" THEN bar.high >= trade.take_profit
       ELSE bar.low <= trade.take_profit

\* a variant of CheckStops whose take-profit close does not find the position
\* gone: it closes the trade read at line 232 once more
CheckStopsUnguarded(eng, es, symbol, bar) ==
    IF symbol \notin DOMAIN es.open_positions THEN es
    ELSE
      LET trade == es.open_positions[symbol]
          es1 == IF StopHit(trade, bar)
                 THEN ClosePosition(eng, es, symbol, trade.stop_loss, "stop_loss")
                 ELSE es
      IN  IF TargetHit(trade, bar)
          THEN ClosePosition(eng, [es1 EXCEPT !.open_positions = es.open_positions],
                             symbol, trade.take_profit, "take_profit")
          ELSE es1

CheckStops(eng, es, symbol, bar) ==
    IF symbol \notin DOMAIN es.open_positions THEN es
    ELSE
      LET trade == es.open_positions[symbol]
          es1 == IF StopHit(trade, bar)
                 THEN ClosePosition(eng, es, symbol, trade.stop_loss, "stop_loss")
                 ELSE es
      IN  IF TargetHit(trade, bar)
          THEN ClosePosition(eng, es1, symbol, trade.take_profit, "take_profit")
          ELSE es1

\* _execute_signal, lines 175-225
EntryFill(eng, action, close) ==
    IF action = "BUY" THEN Scale(close, BP + eng.slippage)
    ELSE Scale(close, BP - eng.slippage)

SignalStop(signal, entry_price) ==
    IF signal.stop_loss # None THEN signal.stop_loss
    ELSE IF signal.action = "BUY" THEN Scale(entry_price, 9800)
    ELSE Scale(entry_price, 10200)

\* a variant of SizeUnits without the cap of lines 204-206
SizeUnitsUncapped(eng, cap, entry_price, stop_loss) ==
    IF Abs(entry_price - stop_loss) > 0
    THEN Scale(cap, eng.risk_per_trade) \div Abs(entry_price - stop_loss)
    ELSE Scale(cap, 1000) \div entry_price

\* lines 193-206.  The quotients are the exact ones: int(a / (b * c)) is
\* (a \div b) \div c, and units * entry_price * (1 + commission) > capital * 0.9
\* says that units is above int(capital * 0.9 / (entry_price * (1 + commission)))
SizeUnits(eng, cap, entry_price, stop_loss) ==
    LET stop_distance == Abs(entry_price - stop_loss)
        risk_amount == Scale(cap, eng.risk_per_trade)
        units0 == IF stop_distance > 0 THEN risk_amount \div stop_distance
                  ELSE Scale(cap, 1000) \div entry_price
        capped == MulDiv(cap, 9000, BP + eng.commission) \div entry_price
    IN  IF units0 > capped THEN capped ELSE units0

\* a variant of AlreadyOpen that never finds the position
AlreadyOpenIgnored(es, symbol) == FALSE

AlreadyOpen(es, symbol) == symbol \in DOMAIN es.open_positions

ExecuteSignal(eng, es, symbol, signal, bar) ==
    IF AlreadyOpen(es, symbol) THEN es
    ELSE
      LET entry_price == EntryFill(eng, signal.action, bar.close)
          stop_loss == SignalStop(signal, entry_price)
          units == SizeUnits(eng, es.capital, entry_price, stop_loss)
          trade == [symbol |-> symbol,
                    entry_time |-> Now(es),
                    entry_price |-> entry_price,
                    direction |-> IF signal.action = "BUY" THEN "long" ELSE "short",
                    units |-> units,
                    stop_loss |-> stop_loss,
                    take_profit |-> signal.take_profit,
                    exit_time |-> None,
                    exit_price |-> None,
                    pnl |-> 0,
                    pnl_pct |-> 0,
                    exit_reason |-> ""]
      IN  IF units <= 0 THEN es
          ELSE [capital |-> es.capital - Scale(units * entry_price, eng.commission),
                trades |-> es.trades,
                open_positions |-> [s \in DOMAIN es.open_positions \cup {symbol} |->
                                       IF s = symbol THEN trade ELSE es.open_positions[s]],
                clock |-> Now(es)]

\* _update_equity, lines 283-294
Unrealized(positions, current_price) ==
    LET pnlOf(t) == IF t.direction = "long"
                    THEN (current_price - t.entry_price) * t.units
                    ELSE (t.entry_price - current_price) * t.units
    IN  IF Symbol \in DOMAIN positions THEN pnlOf(positions[Symbol]) ELSE 0

\* a variant of UpdateEquity that records the capital alone
UpdateEquityRealized(hist, cap, positions, current_price) == Append(hist, cap)

UpdateEquity(hist, cap, positions, current_price) ==
    Append(hist, cap + Unrealized(positions, current_price))

\* _calculate_results, lines 296-409 (the ratios computed from the curve with
\* mean, standard deviation and square root are left out of the record)
CountWhere(ts, P(_)) == Cardinality({k \in 1..Len(ts) : P(ts[k])})

CalculateResults(eng, symbol, start_ts, end_ts, hist, ts) ==
    LET IsWin(t) == t.pnl > 0
        IsLoss(t) == t.pnl <= 0
    IN  [status |-> "ok",
         symbol |-> symbol,
         start_date |-> start_ts,
         end_date |-> end_ts,
         initial_capital |-> eng.initial_capital,
         final_capital |-> hist[Len(hist)],
         total_return |-> hist[Len(hist)] - eng.initial_capital,
         total_trades |-> Len(ts),
         winning_trades |-> CountWhere(ts, IsWin),
         losing_trades |-> CountWhere(ts, IsLoss),
         equity_curve |-> hist,
         trades |-> ts]

\* what the caller gets when run_backtest raises at line 134
InsufficientData == [status |-> "ValueError"]

(***************************************************************************)
(* run_backtest, lines 104-173, one action per step of its loop            *)
(***************************************************************************)
\* lines 127-131: the rows the date filter keeps, in frame order
DateFilter(d) ==
    LET keep(k) ==
            /\ (d.start_date # None => RowTimestamp(d, k) >= d.start_date * 1000)
            /\ (d.end_date # None => RowTimestamp(d, k) <= d.end_date * 1000)
    IN  SelectSeq([k \in 1..d.n |-> k], keep)

\* data.iloc[j]
Iloc(j) == Row(inp, data[j + 1])

\* data.iloc[i-window_size:i]
Window == [j \in 1..WindowSize |-> Iloc(i - WindowSize + j - 1)]

\* a variant of TooShort that lets a series one bar short through
TooShortOffByOne(rows) == Len(rows) < MinBars - 1

\* line 133
TooShort(rows) == Len(rows) < MinBars

\* lines 405-407 (and 343-344): the result holds self.equity_history and
\* self.trades themselves, not copies; a change made in place to the engine's
\* lists shows in every result that shares them
Publish(rs, sh, ts, hist) ==
    [k \in DOMAIN rs |->
        IF k \in sh THEN [rs[k] EXCEPT !.trades = ts, !.equity_curve = hist]
        ELSE rs[k]]

BTInit ==
    /\ inp \in Inputs
    /\ capital = inp.engine.initial_capital
    /\ equity_history = <<inp.engine.initial_capital>>
    /\ trades = <<>>
    /\ open_positions = <<>>
    /\ pc = "idle"
    /\ data = <<>>
    /\ i = 0
    /\ clock = 0
    /\ calls = 0
    /\ opens = <<>>
    /\ results = <<>>
    /\ shared = {}
    /\ of_call = [fn |-> "off"]
    /\ crew_call = [fn |-> "off"]
    /\ crew_pc = "off"
    /\ tasks = <<>>
    /\ agent_results = <<>>
    /\ decisions = <<>>
    /\ pm_call = [fn |-> "off"]
    /\ portfolio = NewPortfolio
    /\ vp_call = [fn |-> "off"]

\* lines 125-139: reset, filter, the length test
StartRun ==
    /\ pc = "idle"
    /\ Len(results) < MaxRuns
    /\ \E r \in {Reset(inp.engine)}, rows \in {DateFilter(inp)} :
           /\ capital' = r.capital
           /\ equity_history' = r.equity_history
           /\ trades' = r.trades
           /\ open_positions' = r.open_positions
           /\ data' = rows
           /\ calls' = 0
           /\ opens' = <<>>
           /\ shared' = IF r.new_lists THEN {} ELSE shared
           /\ \E rs \in {IF r.new_lists THEN results
                          ELSE Publish(results, shared, r.trades, r.equity_history)} :
                  IF TooShort(rows)
                  THEN /\ results' = Append(rs, InsufficientData)
                       /\ pc' = "idle"
                       /\ i' = 0
                  ELSE /\ results' = rs
                       /\ pc' = "check_stops"
                       /\ i' = WindowSize
    /\ UNCHANGED <<of_vars, crew_vars, inp, clock, pm_vars, vp_vars>>

\* line 148
CheckStopsStep ==
    /\ pc = "check_stops"
    /\ \E es \in {CheckStops(inp.engine, Self, Symbol, Iloc(i))} :
           /\ capital' = es.capital
           /\ trades' = es.trades
           /\ open_positions' = es.open_positions
           /\ clock' = es.clock
           /\ results' = Publish(results, shared, es.trades, equity_history)
    /\ pc' = "signal"
    /\ UNCHANGED <<of_vars, crew_vars, inp, equity_history, data, i, calls, opens, shared, pm_vars, vp_vars>>

\* lines 150-161: the strategy call, the signal, the equity point, the loop test
Tradable(signal) == signal.action \in {"BUY", "SELL"}

ProcessSignal(eng, es, symbol, returned, current_bar) ==
    LET signal == IF returned = Raise THEN NoTrade ELSE returned
    IN  IF Tradable(signal)
        THEN ExecuteSignal(eng, es, symbol, signal, current_bar)
        ELSE es

SignalStep ==
    /\ pc = "signal"
    /\ \E current_bar \in {Iloc(i)} :
       \E es \in {ProcessSignal(inp.engine, Self, Symbol,
                                StrategyFunc(inp.strategy, Window, Iloc(0)),
                                current_bar)} :
           /\ capital' = es.capital
           /\ trades' = es.trades
           /\ open_positions' = es.open_positions
           /\ clock' = es.clock
           /\ equity_history' =
                 UpdateEquity(equity_history, es.capital, es.open_positions,
                              current_bar.close)
           /\ opens' = IF es.open_positions # open_positions THEN Append(opens, i)
                       ELSE opens
           /\ results' =
                 Publish(results, shared, es.trades,
                         UpdateEquity(equity_history, es.capital, es.open_positions,
                                      current_bar.close))
    /\ calls' = calls + 1
    /\ i' = i + 1
    /\ pc' = IF i + 1 < Len(data) THEN "check_stops" ELSE "finish"
    /\ UNCHANGED <<of_vars, crew_vars, inp, data, shared, pm_vars, vp_vars>>

\* a variant of CloseRemaining that leaves the position open
CloseRemainingSkipped(eng, es, symbol, last_bar) == es

\* lines 163-166: the forced close
CloseRemaining(eng, es, symbol, last_bar) ==
    IF symbol \in DOMAIN es.open_positions
    THEN ClosePosition(eng, es, symbol, last_bar.close, "end_of_backtest")
    ELSE es

\* lines 163-173: the forced close and the result
FinishRun ==
    /\ pc = "finish"
    /\ \E last_bar \in {Iloc(Len(data) - 1)} :
       \E es \in {CloseRemaining(inp.engine, Self, Symbol, last_bar)} :
           /\ capital' = es.capital
           /\ trades' = es.trades
           /\ open_positions' = es.open_positions
           /\ clock' = es.clock
           /\ results' = Append(Publish(results, shared, es.trades, equity_history),
                 CalculateResults(inp.engine, Symbol, Iloc(0).timestamp,
                                  last_bar.timestamp, equity_history, es.trades))
    /\ shared' = shared \cup {Len(results) + 1}
    /\ pc' = "idle"
    /\ UNCHANGED <<of_vars, crew_vars, inp, equity_history, data, i, calls, opens, pm_vars, vp_vars>>

BTNext ==
    \/ StartRun
    \/ CheckStopsStep
    \/ SignalStep
    \/ FinishRun

SpecBT == BTInit /\ [][BTNext]_vars


(***************************************************************************)
(* Properties of the backtest engine (SpecBT)                              *)
(***************************************************************************)
\* a run_backtest call has returned a result and no other has started
Returned ==
    /\ pc = "idle"
    /\ results # <<>>
    /\ results[Len(results)].status = "ok"

\* the trigger conditions and the fill, as the specification words them
StopTouched(t, b) ==
    \/ t.direction = "long" /\ b.low <= t.stop_loss
    \/ t.direction = "short" /\ b.high >= t.stop_loss

TargetTouched(t, b) ==
    /\ t.take_profit # None
    /\ \/ t.direction = "long" /\ b.high >= t.take_profit
       \/ t.direction = "short" /\ b.low <= t.take_profit

Slipped(t, level) ==
    IF t.direction = "long" THEN Scale(level, BP - inp.engine.slippage)
    ELSE Scale(level, BP + inp.engine.slippage)

\* this step closes position t at `level`, and does nothing else
ClosedAt(t, level, reason) ==
    /\ Symbol \notin DOMAIN open_positions'
    /\ Len(trades') = Len(trades) + 1
    /\ SubSeq(trades', 1, Len(trades)) = trades
    /\ trades'[Len(trades')].entry_time = t.entry_time
    /\ trades'[Len(trades')].exit_price = Slipped(t, level)
    /\ trades'[Len(trades')].exit_reason = reason

\* the capital the closed trades of the run leave: every entry commission paid,
\* every realised P&L booked
Booked ==
    inp.engine.initial_capital
    + SumSeq([k \in 1..Len(trades) |->
                 trades[k].pnl
                 - Scale(trades[k].units * trades[k].entry_price,
                         inp.engine.commission)])

\* C3: two executions of run_backtest on the same bars, with the same pure
\* strategy and the same engine parameters, return the same trade list, field by
\* field (entry_time and exit_time included), and the same equity curve.
C3_Deterministic ==
    (Len(results) >= 2 /\ results[1].status = "ok" /\ results[2].status = "ok")
        => /\ results[1].trades = results[2].trades
           /\ results[1].equity_curve = results[2].equity_curve

\* what does hold of two executions: the equity curves are the same and the
\* trade lists differ in entry_time and exit_time alone
TimeFree(t) == [t EXCEPT !.entry_time = 0, !.exit_time = 0]

C3_SameButForTimes ==
    (Len(results) >= 2 /\ results[1].status = "ok" /\ results[2].status = "ok")
        => /\ results[1].equity_curve = results[2].equity_curve
           /\ Len(results[1].trades) = Len(results[2].trades)
           /\ \A k \in 1..Len(results[1].trades) :
                  TimeFree(results[1].trades[k]) = TimeFree(results[2].trades[k])

\* C4: in every reachable state of a run at most one position is open for the
\* symbol, and a BUY or SELL signal received while a position is open changes
\* neither the open position, nor capital, nor the trade list.
C4_NoPyramiding ==
    [][/\ Cardinality(DOMAIN open_positions') <= 1
       /\ (/\ pc = "signal"
           /\ Symbol \in DOMAIN open_positions
           /\ StrategyFunc(inp.strategy, Window, Iloc(0)).action \in {"BUY", "SELL"})
              => /\ open_positions' = open_positions
                 /\ capital' = capital
                 /\ trades' = trades]_vars

\* a position is open and the strategy answers BUY or SELL on this bar
C4_Witness ==
    /\ pc = "signal"
    /\ Symbol \in DOMAIN open_positions
    /\ StrategyFunc(inp.strategy, Window, Iloc(0)).action \in {"BUY", "SELL"}

\* C5 as stated: on every replayed bar a touched stop-loss closes the position at
\* the stop level adjusted by slippage, a touched take-profit closes it at the
\* take-profit level adjusted by slippage, both before the strategy's signal for
\* the bar is processed, and a position opened on the bar is sized from the
\* capital after the close.
C5_AsStated ==
    [][/\ (pc = "check_stops" /\ Symbol \in DOMAIN open_positions)
              => /\ StopTouched(open_positions[Symbol], Iloc(i))
                      => ClosedAt(open_positions[Symbol],
                                  open_positions[Symbol].stop_loss, "stop_loss")
                 /\ TargetTouched(open_positions[Symbol], Iloc(i))
                      => ClosedAt(open_positions[Symbol],
                                  open_positions[Symbol].take_profit, "take_profit")
                 /\ calls' = calls
                 /\ pc' = "signal"
       /\ (pc = "signal" /\ Symbol \in DOMAIN open_positions' \ DOMAIN open_positions)
              => /\ capital = Booked
                 /\ open_positions'[Symbol].units =
                        SizeUnits(inp.engine, Booked, open_positions'[Symbol].entry_price,
                                  open_positions'[Symbol].stop_loss)]_vars

\* C5, amended: as stated, except that a take-profit touched on a bar that also
\* touches the stop-loss does not fill: the position is closed at the stop level
\* adjusted by slippage.  The take-profit level fills when the bar touches it
\* and not the stop.
C5_StopBeforeSignal ==
    [][/\ (pc = "check_stops" /\ Symbol \in DOMAIN open_positions)
              => /\ StopTouched(open_positions[Symbol], Iloc(i))
                      => ClosedAt(open_positions[Symbol],
                                  open_positions[Symbol].stop_loss, "stop_loss")
                 /\ (/\ TargetTouched(open_positions[Symbol], Iloc(i))
                     /\ ~StopTouched(open_positions[Symbol], Iloc(i)))
                      => ClosedAt(open_positions[Symbol],
                                  open_positions[Symbol].take_profit, "take_profit")
                 /\ calls' = calls
                 /\ pc' = "signal"
       /\ (pc = "signal" /\ Symbol \in DOMAIN open_positions' \ DOMAIN open_positions)
              => /\ capital = Booked
                 /\ open_positions'[Symbol].units =
                        SizeUnits(inp.engine, Booked, open_positions'[Symbol].entry_price,
                                  open_positions'[Symbol].stop_loss)]_vars

\* a bar touched both levels of the first position, which left at its stop, and
\* the strategy's signal for that same bar opened the second position
C5_Witness ==
    /\ pc \in {"check_stops", "finish"}
    /\ Len(trades) = 1
    /\ trades[1].exit_reason = "stop_loss"
    /\ StopTouched(trades[1], Iloc(i - 1))
    /\ TargetTouched(trades[1], Iloc(i - 1))
    /\ Symbol \in DOMAIN open_positions
    /\ Len(opens) = 2
    /\ opens[2] = i - 1

\* no bar after the one it opened on touches the position's stop or target
Untouched(t, opened) ==
    \A m \in (opened + 1)..(Len(data) - 1) :
        ~StopTouched(t, Iloc(m)) /\ ~TargetTouched(t, Iloc(m))

\* C6: when run_backtest returns no position is open and every trade of the
\* result has an exit price and a non-empty exit_reason; a position whose stop
\* and target no later bar touches is closed exactly once, at the last bar's
\* close (filled with slippage, as every close is), with exit_reason
\* 'end_of_backtest'; a strategy whose single BUY on the first replayed bar opens
\* such a position gives total_trades = 1.
C6_EndOfDataClose ==
    Returned =>
        /\ DOMAIN open_positions = {}
        /\ results[Len(results)].trades = trades
        /\ Len(trades) = Len(opens)
        /\ \A k \in 1..Len(trades) :
               /\ trades[k].exit_price # None
               /\ trades[k].exit_reason # ""
               /\ Untouched(trades[k], opens[k])
                     => /\ k = Len(trades)
                        /\ trades[k].exit_reason = "end_of_backtest"
                        /\ trades[k].exit_price =
                               Slipped(trades[k], Iloc(Len(data) - 1).close)
        /\ (/\ inp.strategy = "buy_once"
            /\ opens = <<WindowSize>>
            /\ Untouched(trades[1], WindowSize))
               => results[Len(results)].total_trades = 1

\* the single BUY of the first replayed bar was held to the end of the data
C6_Witness ==
    /\ Returned
    /\ inp.strategy = "buy_once"
    /\ opens = <<WindowSize>>
    /\ Len(trades) = 1
    /\ trades[1].exit_reason = "end_of_backtest"
    /\ results[Len(results)].total_trades = 1

\* the rows of the frame the optional start and end dates keep
FilteredCount ==
    Cardinality({k \in 1..inp.n :
                    /\ inp.start_date = None \/ RowTimestamp(inp, k) >= inp.start_date * 1000
                    /\ inp.end_date = None \/ RowTimestamp(inp, k) <= inp.end_date * 1000})

\* C7: run_backtest on a series of fewer than 100 bars, counted after the date
\* filter, ends in an error returned to the caller: the strategy is not called,
\* no trade is opened, and the equity history is still the single
\* initial-capital point.
C7_InsufficientHistory ==
    FilteredCount < 100 =>
        /\ pc = "idle"
        /\ calls = 0
        /\ trades = <<>>
        /\ DOMAIN open_positions = {}
        /\ equity_history = <<inp.engine.initial_capital>>
        /\ \A k \in 1..Len(results) : results[k] = InsufficientData
        /\ data # <<>> => results # <<>>

\* a frame of at least 100 rows that the date filter cut below 100 was refused
C7_Witness ==
    /\ inp.n >= 100
    /\ FilteredCount < 100
    /\ results # <<>>
    /\ results[Len(results)] = InsufficientData
    /\ calls = 0

\* the filtered series has a timestamp smaller than the one before it
NonMonotonic ==
    \E k \in 1..(Len(data) - 1) :
        Row(inp, data[k]).timestamp > Row(inp, data[k + 1]).timestamp

\* C8: run_backtest on a series of at least 100 bars whose timestamps are not
\* non-decreasing ends in an error to the caller and produces no result.
C8_NonMonotonicRejected ==
    (Len(data) >= 100 /\ NonMonotonic)
        => /\ pc = "idle"
           /\ \A k \in 1..Len(results) : results[k].status # "ok"

\* the state of an engine as __init__ leaves it (lines 92-95)
Constructed ==
    /\ capital' = inp.engine.initial_capital
    /\ equity_history' = <<inp.engine.initial_capital>>
    /\ trades' = <<>>
    /\ open_positions' = <<>>

\* results a and b are the same, entry_time and exit_time (wall-clock readings,
\* the matter of C3) left aside
SameResult(a, b) ==
    /\ [a EXCEPT !.trades = <<>>] = [b EXCEPT !.trades = <<>>]
    /\ Len(a.trades) = Len(b.trades)
    /\ \A k \in 1..Len(a.trades) : TimeFree(a.trades[k]) = TimeFree(b.trades[k])

\* C15: run_backtest starts from capital, equity history, trade list and open
\* positions as the constructor leaves them, whatever earlier runs left behind;
\* the result of a run on a used engine is the result the same run gave on the
\* freshly constructed engine; and no step of a later run changes the trade
\* list or the equity curve (or anything else) of a result already returned.
C15_RunIsolation ==
    [][/\ (pc = "idle" /\ calls' = 0) => Constructed
       /\ \A k \in 1..Len(results) : results'[k] = results[k]
       /\ (Len(results') >= 2 /\ results'[1].status = "ok")
              => \A k \in 2..Len(results') : SameResult(results'[k], results'[1])]_vars

\* a second run has returned on an engine whose first run booked trades; the
\* first result no longer shares the engine's lists
C15_Witness ==
    /\ Returned
    /\ Len(results) = 2
    /\ results[1].status = "ok"
    /\ results[1].trades # <<>>
    /\ Len(results[1].equity_curve) > 1
    /\ shared = {2}

\* C21: the strategy function is consulted only when flat: on a replayed bar
\* where a position is still open after the stop and take-profit check,
\* run_backtest does not invoke the strategy function; on a bar where no
\* position is open it invokes it exactly once.
C21_StrategyOnlyWhenFlat ==
    [][pc = "signal"
          => IF Symbol \in DOMAIN open_positions THEN calls' = calls
             ELSE calls' = calls + 1]_vars

\* what does hold: the strategy function is invoked exactly once on every
\* replayed bar, a position open or not, and nowhere else
C21_CalledOnEveryBar ==
    [][IF pc = "signal" THEN calls' = calls + 1
       ELSE calls' = calls \/ (pc = "idle" /\ calls' = 0)]_vars

\* this step opens a position
Opens == pc = "signal" /\ Symbol \in DOMAIN open_positions' \ DOMAIN open_positions

\* the signal the strategy returns on this bar, and the units _execute_signal
\* computes for it from the capital of this state
SignalNow == StrategyFunc(inp.strategy, Window, Iloc(0))

UnitsNow ==
    SizeUnits(inp.engine, capital,
              EntryFill(inp.engine, SignalNow.action, Iloc(i).close),
              SignalStop(SignalNow, EntryFill(inp.engine, SignalNow.action, Iloc(i).close)))

\* the sizing of the position t opened from capital cap; units * entry_price is
\* a whole number, so it is at most 0.9 * cap / (1 + commission) when it is at
\* most that quotient rounded down
SizedWithin(t, cap) ==
    /\ t.units >= 1
    /\ t.units * t.entry_price <= MulDiv(cap, 9000, BP + inp.engine.commission)
    /\ Abs(t.entry_price - t.stop_loss) > 0
          => t.units * Abs(t.entry_price - t.stop_loss)
                 <= Scale(cap, inp.engine.risk_per_trade)

\* C22: whenever _execute_signal opens a position, units >= 1, units * fill_price
\* * (1 + commission) <= 0.9 * capital (the capital just before the open), units
\* <= capital * risk_per_trade / |fill_price - stop_loss| when the stop distance
\* is positive, and capital decreases by exactly units * fill_price * commission;
\* when the computed units are 0 no position is opened and capital is unchanged.
C22_EntrySizing ==
    [][/\ Opens
          => /\ SizedWithin(open_positions'[Symbol], capital)
             /\ capital' = capital
                    - Scale(open_positions'[Symbol].units
                              * open_positions'[Symbol].entry_price,
                            inp.engine.commission)
       /\ (/\ pc = "signal"
           /\ Symbol \notin DOMAIN open_positions
           /\ Tradable(SignalNow)
           /\ UnitsNow = 0)
              => /\ open_positions' = open_positions
                 /\ capital' = capital]_vars

\* the position opened on the last bar was cut to 90% of the capital: the risk
\* amount paid for more units than it holds
C22_Witness ==
    /\ pc \in {"check_stops", "finish"}
    /\ opens # <<>>
    /\ opens[Len(opens)] = i - 1
    /\ Symbol \in DOMAIN open_positions
    /\ (open_positions[Symbol].units + 1)
           * Abs(open_positions[Symbol].entry_price - open_positions[Symbol].stop_loss)
         <= Scale(capital + Scale(open_positions[Symbol].units
                                    * open_positions[Symbol].entry_price,
                                  inp.engine.commission),
                  inp.engine.risk_per_trade)

\* the unrealized P&L of the open positions marked at price `close`
MarkedAt(positions, close) ==
    IF Symbol \notin DOMAIN positions THEN 0
    ELSE IF positions[Symbol].direction = "long"
    THEN (close - positions[Symbol].entry_price) * positions[Symbol].units
    ELSE (positions[Symbol].entry_price - close) * positions[Symbol].units

\* C23: run_backtest appends exactly one equity point per replayed bar, so the
\* curve of a result has 1 + (number of bars - 60) points, and each point is
\* the capital plus the unrealized P&L of the open position marked at that
\* bar's close, taken after that bar's stop check and signal processing.
C23_EquityCurve ==
    [][/\ pc = "signal"
          => /\ Len(equity_history') = Len(equity_history) + 1
             /\ SubSeq(equity_history', 1, Len(equity_history)) = equity_history
             /\ equity_history'[Len(equity_history')] =
                    capital' + MarkedAt(open_positions', Iloc(i).close)
             /\ pc' \in {"check_stops", "finish"}
       /\ pc \in {"check_stops", "finish"} => equity_history' = equity_history
       /\ pc = "check_stops" => pc' = "signal"
       /\ (pc = "finish" /\ pc' = "idle")
          => /\ results'[Len(results')].equity_curve = equity_history
             /\ Len(equity_history) = 1 + (Len(data) - WindowSize)]_vars

\* a bar has just been replayed with a position open whose mark at the bar's
\* close is not zero: the point recorded for it is not the capital
C23_Witness ==
    /\ pc = "check_stops"
    /\ Symbol \in DOMAIN open_positions
    /\ Len(equity_history) = 1 + (i - WindowSize)
    /\ equity_history[Len(equity_history)] # capital

\* C26: for every completed run, the result's final_capital is the engine's
\* capital after all positions have been closed, that is initial_capital plus
\* the pnl of all trades minus the entry commissions deducted at each open; runs
\* whose last position is closed with reason 'end_of_backtest' included.
C26_FinalCapital ==
    Returned =>
        /\ results[Len(results)].final_capital = capital
        /\ capital = Booked

\* what does hold: the engine's capital is the booked one, and final_capital is
\* the last point of the equity curve, which is the capital whenever the run
\* ended without a forced close
C26_FinalIsLastPoint ==
    Returned =>
        /\ capital = Booked
        /\ results[Len(results)].final_capital = equity_history[Len(equity_history)]
        /\ (trades = <<>> \/ trades[Len(trades)].exit_reason # "end_of_backtest")
              => results[Len(results)].final_capital = capital

\* C29: a position is closed at most once; when both its stop-loss and its
\* take-profit conditions hold on the same bar, the position is closed once with
\* exit_reason 'stop_loss' at the stop level, exactly one trade is appended to
\* the trade list, and capital is adjusted by that trade's pnl only once.
C29_SingleClose ==
    [][/\ Len(trades') <= Len(trades) + 1
       /\ \A j, k \in 1..Len(trades') :
              trades'[j].entry_time = trades'[k].entry_time => j = k
       /\ \A k \in 1..Len(trades') :
              Symbol \in DOMAIN open_positions'
                 => trades'[k].entry_time # open_positions'[Symbol].entry_time
       /\ (/\ pc = "check_stops"
           /\ Symbol \in DOMAIN open_positions
           /\ StopTouched(open_positions[Symbol], Iloc(i))
           /\ TargetTouched(open_positions[Symbol], Iloc(i)))
              => /\ ClosedAt(open_positions[Symbol],
                             open_positions[Symbol].stop_loss, "stop_loss")
                 /\ capital' = capital + trades'[Len(trades')].pnl]_vars

\* the bar just checked touched the stop and the target of the only position
\* of the run so far, and the check closed it: one trade, booked once
C29_Witness ==
    /\ pc = "signal"
    /\ Len(trades) = 1
    /\ Len(opens) = 1
    /\ Symbol \notin DOMAIN open_positions
    /\ trades[1].exit_time = clock
    /\ StopTouched(trades[1], Iloc(i))
    /\ TargetTouched(trades[1], Iloc(i))
    /\ trades[1].exit_reason = "stop_loss"
    /\ capital = Booked

(***************************************************************************)
(* Calls on the manager.  The arguments are drawn in the initial state;    *)
(* each action is one call and records what it returned.                   *)
(***************************************************************************)
Confidences == {<<0, 1>>, <<1, 2>>, <<3, 5>>, <<9, 10>>}

TapeSignals ==
    [direction : {"bullish", "bearish", "neutral"}, confidence : Confidences]

ChartSignals ==
    [direction : {"bullish", "bearish_breakout", "neutral"},
     strength : Confidences,
     current_price : {<<448, 1>>},
     key_levels : {{}, {<<445, 1>>, <<448, 1>>, <<455, 1>>}}]

MacroSignals ==
    [direction : {"bullish", "bearish", "avoid"},
     confidence : {<<1, 2>>, <<9, 10>>},
     trading_allowed : {"true", "false", "missing"}]

HighCorr == [s \in {Symbol} |-> [q \in {"QQQ"} |-> <<0 - 9, 10>>]]

\* the same correlation filed under the held symbol's row, and a correlation
\* that sits exactly on max_correlation
HighCorrByHeld == [s \in {"QQQ"} |-> [q \in {Symbol} |-> <<0 - 9, 10>>]]

CorrAtLimit == [s \in {Symbol} |-> [q \in {"QQQ"} |-> <<17, 20>>]]

DecisionArgs ==
    [kind : {"decision"},
     tape : TapeSignals,
     chart : ChartSignals,
     macro : MacroSignals,
     current_price : {NoPrice, <<450, 1>>},
     correlation_matrix : {NoMatrix, HighCorr, HighCorrByHeld, CorrAtLimit}]

SizeArgs ==
    [kind : {"size"},
     entry_price : {<<1, 1>>, <<100, 1>>, <<450, 1>>},
     stop_loss : {<<0, 1>>, <<1, 1>>, <<99, 1>>, <<100, 1>>, <<441, 1>>, <<4499, 10>>,
                  <<450, 1>>, <<459, 1>>, <<900, 1>>},
     confidence : {<<0, 1>>, <<1, 100>>, <<1, 2>>, <<8, 15>>, <<19, 20>>, <<1, 1>>}]

Portfolios == {NewPortfolio, [NewPortfolio EXCEPT !.positions = {"QQQ"}]}

PMInit ==
    /\ pm_call \in [fn : {"none"}, args : DecisionArgs \cup SizeArgs]
    /\ portfolio \in Portfolios
    /\ clock = 0
    /\ inp = "off"
    /\ capital = 0
    /\ equity_history = <<>>
    /\ trades = <<>>
    /\ open_positions = <<>>
    /\ pc = "off"
    /\ data = <<>>
    /\ i = 0
    /\ calls = 0
    /\ opens = <<>>
    /\ results = <<>>
    /\ shared = {}
    /\ of_call = [fn |-> "off"]
    /\ crew_call = [fn |-> "off"]
    /\ crew_pc = "off"
    /\ tasks = <<>>
    /\ agent_results = <<>>
    /\ decisions = <<>>
    /\ vp_call = [fn |-> "off"]

PMAggregate ==
    /\ pm_call.fn = "none"
    /\ pm_call.args.kind = "decision"
    /\ pm_call' = [fn |-> "aggregate_signals",
                   args |-> pm_call.args,
                   ret |-> AggregateSignals(Config, pm_call.args.tape,
                                            pm_call.args.chart, pm_call.args.macro)]
    /\ UNCHANGED <<of_vars, crew_vars, portfolio, bt_vars, vp_vars>>

PMSize ==
    /\ pm_call.fn = "none"
    /\ pm_call.args.kind = "size"
    /\ pm_call' = [fn |-> "calculate_position_size",
                   args |-> pm_call.args,
                   ret |-> CalculatePositionSize(Config, portfolio, Symbol,
                                                 pm_call.args.entry_price,
                                                 pm_call.args.stop_loss,
                                                 pm_call.args.confidence)]
    /\ UNCHANGED <<of_vars, crew_vars, portfolio, bt_vars, vp_vars>>

PMDecide ==
    /\ pm_call.fn = "none"
    /\ pm_call.args.kind = "decision"
    /\ pm_call' = [fn |-> "make_trade_decision",
                   args |-> pm_call.args,
                   ret |-> MakeTradeDecision(Config, portfolio, Symbol,
                                             pm_call.args.tape, pm_call.args.chart,
                                             pm_call.args.macro,
                                             pm_call.args.current_price,
                                             pm_call.args.correlation_matrix,
                                             clock + 1)]
    /\ clock' = clock + 1
    /\ UNCHANGED <<of_vars, crew_vars, portfolio, inp, capital, equity_history, trades, open_positions,
                   pc, data, i, calls, opens, results, shared, vp_vars>>

\* make_trade_decision called once more on the same manager with the same
\* arguments
PMDecideAgain ==
    /\ pm_call.fn = "make_trade_decision"
    /\ "again" \notin DOMAIN pm_call
    /\ pm_call' = [fn |-> "make_trade_decision",
                   args |-> pm_call.args,
                   ret |-> pm_call.ret,
                   again |-> MakeTradeDecision(Config, portfolio, Symbol,
                                               pm_call.args.tape, pm_call.args.chart,
                                               pm_call.args.macro,
                                               pm_call.args.current_price,
                                               pm_call.args.correlation_matrix,
                                               clock + 1)]
    /\ clock' = clock + 1
    /\ UNCHANGED <<of_vars, crew_vars, portfolio, inp, capital, equity_history, trades, open_positions,
                   pc, data, i, calls, opens, results, shared, vp_vars>>

PMNext ==
    \/ PMAggregate
    \/ PMSize
    \/ PMDecide
    \/ PMDecideAgain

SpecPM == PMInit /\ [][PMNext]_vars


(***************************************************************************)
(* Properties of the manager (SpecPM)                                      *)
(***************************************************************************)
\* C1: whatever the directions and confidences of the three sources, when the
\* macro signal carries trading_allowed = false, aggregate_signals returns
\* final_decision 'no_trade' and make_trade_decision returns action 'NO_TRADE'
\* with no stop-loss and no position in it.
C1_VolatilityGate ==
    (/\ pm_call.fn \in {"aggregate_signals", "make_trade_decision"}
     /\ pm_call.args.macro.trading_allowed = "false")
        => /\ pm_call.fn = "aggregate_signals"
                => pm_call.ret.final_decision = "no_trade"
           /\ pm_call.fn = "make_trade_decision"
                => /\ pm_call.ret.action = "NO_TRADE"
                   /\ "stop_loss" \notin DOMAIN pm_call.ret
                   /\ "position" \notin DOMAIN pm_call.ret
                   /\ "entry_price" \notin DOMAIN pm_call.ret

\* the gate stopped a decision the three sources, all confidently bullish, would
\* otherwise have made
C1_Witness ==
    /\ pm_call.fn = "make_trade_decision"
    /\ pm_call.args.macro.trading_allowed = "false"
    /\ pm_call.args.tape = [direction |-> "bullish", confidence |-> <<9, 10>>]
    /\ pm_call.args.chart.direction = "bullish"
    /\ pm_call.args.chart.strength = <<9, 10>>
    /\ pm_call.args.macro.direction = "bullish"
    /\ pm_call.args.macro.confidence = <<9, 10>>
    /\ pm_call.ret.action = "NO_TRADE"

\* the size a call returned: calculate_position_size's result, or the position
\* inside a BUY or SELL decision
SizedCall ==
    \/ pm_call.fn = "calculate_position_size"
    \/ pm_call.fn = "make_trade_decision" /\ "position" \in DOMAIN pm_call.ret

SizeReturned ==
    IF pm_call.fn = "calculate_position_size" THEN pm_call.ret
    ELSE pm_call.ret.position

SizeEntry ==
    IF pm_call.fn = "calculate_position_size" THEN pm_call.args.entry_price
    ELSE pm_call.ret.entry_price

\* C2: for every confidence in [0,1], every positive entry price and every stop
\* price, the stop equal to the entry included, calculate_position_size returns
\* position_pct <= max_position_size and units with
\* units * entry_price <= max_position_size * equity.
C2_PositionCap ==
    SizedCall =>
        /\ RLe(SizeReturned.position_pct, Config.max_position_size)
        /\ RLe(RMul(RInt(SizeReturned.units), SizeEntry),
               RMul(Config.max_position_size, RInt(portfolio.equity)))

\* full confidence with the stop at the entry: the risk-sized position is twice
\* the equity, and the call returned it cut to the cap
C2_Witness ==
    /\ pm_call.fn = "calculate_position_size"
    /\ pm_call.args.stop_loss = pm_call.args.entry_price
    /\ pm_call.args.confidence = <<1, 1>>
    /\ pm_call.ret.position_pct = Config.max_position_size
    /\ pm_call.ret.units > 0

\* an aggregate_signals call that got past the volatility gate
Aggregated ==
    /\ pm_call.fn = "aggregate_signals"
    /\ pm_call.args.macro.trading_allowed # "false"

\* the three sources of the call, as aggregate_signals reads them
Sources ==
    <<[d |-> pm_call.args.tape.direction, c |-> pm_call.args.tape.confidence,
       w |-> Weights.tape_reader],
      [d |-> pm_call.args.chart.direction, c |-> pm_call.args.chart.strength,
       w |-> Weights.chartist],
      [d |-> pm_call.args.macro.direction, c |-> pm_call.args.macro.confidence,
       w |-> Weights.macro]>>

\* the weighted sum of the three sources, before any bonus
WeightedSum ==
    RAdd(RAdd(RMul(RMul(SignalMap(Sources[1].d), Sources[1].c), Sources[1].w),
              RMul(RMul(SignalMap(Sources[2].d), Sources[2].c), Sources[2].w)),
         RMul(RMul(SignalMap(Sources[3].d), Sources[3].c), Sources[3].w))

\* the sources of confidence strictly above 0.5 on each side
BullishOver ==
    Cardinality({k \in 1..3 : /\ Sources[k].d \in {"bullish", "bullish_breakout"}
                              /\ RLt(<<1, 2>>, Sources[k].c)})

BearishOver ==
    Cardinality({k \in 1..3 : /\ Sources[k].d \in {"bearish", "bearish_breakout"}
                              /\ RLt(<<1, 2>>, Sources[k].c)})

\* the bonus the specification grants: once, up or down
StatedBonus ==
    IF BullishOver >= 2 THEN <<1, 5>>
    ELSE IF BearishOver >= 2 THEN <<0 - 1, 5>>
    ELSE <<0, 1>>

StatedTotal == RAdd(WeightedSum, StatedBonus)

MeanConfidence ==
    RDiv(RAdd(RAdd(Sources[1].c, Sources[2].c), Sources[3].c), <<3, 1>>)

\* two sources of one direction sit at exactly 0.50 and the third at 0.9
TwoAtHalf ==
    \E a, b \in 1..3 :
        /\ a < b
        /\ Sources[a].c = <<1, 2>>
        /\ Sources[b].c = <<1, 2>>
        /\ \/ HasBullish(Sources[a].d) /\ HasBullish(Sources[b].d)
           \/ HasBearish(Sources[a].d) /\ HasBearish(Sources[b].d)
        /\ \A k \in 1..3 \ {a, b} : Sources[k].c = <<9, 10>>

\* C11: a source counts towards the '>= 2 agree' bonus only when its confidence
\* is strictly greater than 0.5: with two same-direction sources at exactly 0.50
\* and the third at 0.9 total_signal gets no bonus; and the bonus is applied at
\* most once, +0.2 or -0.2.
C11_StrictBonusThreshold ==
    Aggregated =>
        /\ pm_call.ret.agreement = <<BullishOver, BearishOver>>
        /\ pm_call.ret.signal_strength = RAbs(StatedTotal)
        /\ TwoAtHalf => pm_call.ret.signal_strength = RAbs(WeightedSum)

\* two bullish sources at exactly 0.50, the third at 0.9: no bonus was added to
\* a weighted sum that a bonus would have changed
C11_Witness ==
    /\ Aggregated
    /\ TwoAtHalf
    /\ HasBullish(Sources[1].d)
    /\ HasBullish(Sources[2].d)
    /\ pm_call.ret.signal_strength = RAbs(WeightedSum)
    /\ pm_call.ret.signal_strength # RAbs(RAdd(WeightedSum, <<1, 5>>))

\* C17: in calculate_position_size the stop distance that divides risk_amount is
\* never smaller than 1% of the entry price, for every entry/stop pair.
C17_StopDistanceFloor ==
    pm_call.fn = "calculate_position_size"
        => RLe(<<1, 1>>, pm_call.ret.stop_distance_pct)

\* what does hold: the 1% distance is used when the stop equals the entry
C17_FloorAtZeroDistance ==
    (/\ pm_call.fn = "calculate_position_size"
     /\ pm_call.args.stop_loss = pm_call.args.entry_price)
        => pm_call.ret.stop_distance_pct = <<1, 1>>

\* min(0.95, mean + (agreeing_count - 1) * 0.1)
StatedConfidence(agreeing_count) ==
    LET raised == RAdd(MeanConfidence, RMul(RInt(agreeing_count - 1), <<1, 10>>))
    IN  IF RLt(<<19, 20>>, raised) THEN <<19, 20>> ELSE raised

\* C18: with trading allowed, aggregate_signals returns no_trade iff
\* |total_signal| < 0.3 or the mean of the three raw confidences is below
\* min_confidence; otherwise long when total_signal > 0 and short when
\* total_signal < 0, with confidence min(0.95, mean + (agreeing_count - 1) * 0.1),
\* agreeing_count being the sources of confidence > 0.5 in the decided direction.
C18_DecisionRule ==
    Aggregated =>
        /\ pm_call.ret.final_decision = "no_trade"
              <=> \/ RLt(RAbs(StatedTotal), <<3, 10>>)
                  \/ RLt(MeanConfidence, Config.min_confidence)
        /\ pm_call.ret.final_decision = "no_trade"
              => pm_call.ret.confidence = MeanConfidence
        /\ (pm_call.ret.final_decision # "no_trade" /\ RLt(<<0, 1>>, StatedTotal))
              => /\ pm_call.ret.final_decision = "long"
                 /\ pm_call.ret.direction = "bullish"
                 /\ pm_call.ret.confidence = StatedConfidence(BullishOver)
        /\ (pm_call.ret.final_decision # "no_trade" /\ RLt(StatedTotal, <<0, 1>>))
              => /\ pm_call.ret.final_decision = "short"
                 /\ pm_call.ret.direction = "bearish"
                 /\ pm_call.ret.confidence = StatedConfidence(BearishOver)

\* three bullish sources at 0.9: long, with the confidence cut to 0.95
C18_Witness ==
    /\ Aggregated
    /\ BullishOver = 3
    /\ MeanConfidence = <<9, 10>>
    /\ pm_call.ret.final_decision = "long"
    /\ pm_call.ret.confidence = <<19, 20>>

\* a make_trade_decision call with a matrix whose signals decide long or short
GateReached ==
    /\ pm_call.fn = "make_trade_decision"
    /\ DOMAIN pm_call.args.correlation_matrix # {}
    /\ AggregateSignals(Config, pm_call.args.tape, pm_call.args.chart,
                        pm_call.args.macro).final_decision \in {"long", "short"}

\* the correlations the matrix holds between the candidate and a held symbol,
\* under either row
PairCorrelations(m, held) ==
    {RAbs(m[Symbol][q]) : q \in {h \in held : Symbol \in DOMAIN m /\ h \in DOMAIN m[Symbol]}}
    \cup {RAbs(m[q][Symbol]) : q \in {h \in held : h \in DOMAIN m /\ Symbol \in DOMAIN m[h]}}

\* C19: when a correlation matrix is supplied and the aggregated decision is
\* long or short, make_trade_decision returns NO_TRADE whenever a held symbol has
\* |correlation| with the candidate strictly above max_correlation, whichever of
\* the two symbols is the row key; a correlation equal to max_correlation does
\* not reject.
C19_CorrelationGate ==
    GateReached =>
        (pm_call.ret.action = "NO_TRADE"
            <=> \E c \in PairCorrelations(pm_call.args.correlation_matrix,
                                          portfolio.positions) :
                    RLt(Config.max_correlation, c))

\* what does hold: the gate rejects on the correlations filed under the
\* candidate symbol's own row, and on those alone
C19_GateOnCandidateRow ==
    GateReached =>
        (pm_call.ret.action = "NO_TRADE"
            <=> /\ Symbol \in DOMAIN pm_call.args.correlation_matrix
                /\ \E q \in portfolio.positions :
                       /\ q \in DOMAIN pm_call.args.correlation_matrix[Symbol]
                       /\ RLt(Config.max_correlation,
                              RAbs(pm_call.args.correlation_matrix[Symbol][q])))

\* the price a decision is made at
DecisionPrice ==
    IF pm_call.args.current_price = NoPrice THEN pm_call.args.chart.current_price
    ELSE pm_call.args.current_price

\* level l is the highest key level strictly below p (the lowest strictly above)
HighestBelow(l, p) ==
    /\ l \in pm_call.args.chart.key_levels
    /\ RLt(l, p)
    /\ \A x \in pm_call.args.chart.key_levels : RLt(x, p) => RLe(x, l)

LowestAbove(l, p) ==
    /\ l \in pm_call.args.chart.key_levels
    /\ RLt(p, l)
    /\ \A x \in pm_call.args.chart.key_levels : RLt(p, x) => RLe(l, x)

\* C20: for every BUY decision the stop_loss is the highest key level strictly
\* below the current price, or 0.98 x price when there is none, and is strictly
\* below the entry price; for every SELL decision it is the lowest key level
\* strictly above the price, or 1.02 x price, and is strictly above the entry.
C20_StopPlacement ==
    (pm_call.fn = "make_trade_decision" /\ pm_call.ret.action # "NO_TRADE")
        => /\ pm_call.ret.action \in {"BUY", "SELL"}
           /\ pm_call.ret.entry_price = DecisionPrice
           /\ pm_call.ret.action = "BUY"
                 => /\ RLt(pm_call.ret.stop_loss, pm_call.ret.entry_price)
                    /\ \/ HighestBelow(pm_call.ret.stop_loss, DecisionPrice)
                       \/ /\ ~\E l \in pm_call.args.chart.key_levels :
                                  RLt(l, DecisionPrice)
                          /\ pm_call.ret.stop_loss = RMul(DecisionPrice, <<49, 50>>)
           /\ pm_call.ret.action = "SELL"
                 => /\ RLt(pm_call.ret.entry_price, pm_call.ret.stop_loss)
                    /\ \/ LowestAbove(pm_call.ret.stop_loss, DecisionPrice)
                       \/ /\ ~\E l \in pm_call.args.chart.key_levels :
                                  RLt(DecisionPrice, l)
                          /\ pm_call.ret.stop_loss = RMul(DecisionPrice, <<51, 50>>)

\* a BUY at a price that is itself a key level: the stop is the level below it
C20_Witness ==
    /\ pm_call.fn = "make_trade_decision"
    /\ pm_call.ret.action = "BUY"
    /\ DecisionPrice \in pm_call.args.chart.key_levels
    /\ HighestBelow(pm_call.ret.stop_loss, DecisionPrice)

\* C25: make_trade_decision modifies neither the manager's portfolio (equity,
\* positions, exposure) nor its risk config, so after any sequence of earlier
\* calls two calls with equal inputs return decision records that are equal in
\* every field.
C25_Stateless ==
    [][/\ portfolio' = portfolio
       /\ "again" \in DOMAIN pm_call' => pm_call'.again = pm_call'.ret]_vars

\* what does hold: no call changes the portfolio, and the records of two calls
\* with equal inputs differ in `timestamp` alone
C25_SameButForTimestamp ==
    [][/\ portfolio' = portfolio
       /\ "again" \in DOMAIN pm_call'
             => [pm_call'.again EXCEPT !.timestamp = 0]
                    = [pm_call'.ret EXCEPT !.timestamp = 0]]_vars

\* C27: for all input signals with confidences in [0, 1], every decision whose
\* action is BUY or SELL carries a confidence >= min_confidence (0.6), the
\* configured 'min confidence to trade'.
C27_MinConfidenceFloor ==
    (pm_call.fn = "make_trade_decision" /\ pm_call.ret.action \in {"BUY", "SELL"})
        => RLe(Config.min_confidence, pm_call.ret.confidence)

\* what does hold: a BUY or SELL is decided only on an average confidence of at
\* least min_confidence, and its own confidence is at least min_confidence - 0.1
C27_FloorOnAverage ==
    (pm_call.fn = "make_trade_decision" /\ pm_call.ret.action \in {"BUY", "SELL"})
        => /\ RLe(Config.min_confidence,
                  RDiv(RAdd(RAdd(pm_call.args.tape.confidence,
                                 pm_call.args.chart.strength),
                            pm_call.args.macro.confidence), <<3, 1>>))
           /\ RLe(RSub(Config.min_confidence, <<1, 10>>), pm_call.ret.confidence)

(***************************************************************************)
(* build_volume_profile (data/volume_profile.py).  A window is a sequence  *)
(* of bars [low, high, close, volume]; arrays are functions on 0..n-1.     *)
(***************************************************************************)
RECURSIVE SeqMin(_, _, _)
SeqMin(bars, k, m) ==
    IF k > Len(bars) THEN m ELSE SeqMin(bars, k + 1, Min(m, bars[k].low))

RECURSIVE SeqMax(_, _, _)
SeqMax(bars, k, m) ==
    IF k > Len(bars) THEN m ELSE SeqMax(bars, k + 1, Max(m, bars[k].high))

\* lines 59-65: price_range (1% of the minimum when the window is flat) / bins
BinSize(price_min, price_max, bins) ==
    IF price_max - price_min = 0
    THEN RDiv(RMul(RInt(price_min), <<1, 100>>), RInt(bins))
    ELSE Rat(price_max - price_min, bins)

\* np.linspace(price_min, price_max, bins + 1), line 66
PriceBins(price_min, price_max, bins) ==
    [j \in 0..bins |-> RAdd(RInt(price_min), Rat(j * (price_max - price_min), bins))]

\* np.clip(((x - price_min) / bin_size).astype(int), 0, bins - 1), lines 74-75
BinOf(x, price_min, bin_size, bins) ==
    Max(0, Min(bins - 1, RTrunc(RDiv(RInt(x - price_min), bin_size))))

\* lines 77-87: each bar's volume spread evenly over the bins it touches
RECURSIVE Distribute(_, _, _, _, _, _)
Distribute(bars, k, acc, price_min, bin_size, bins) ==
    IF k > Len(bars) THEN acc
    ELSE LET st == BinOf(bars[k].low, price_min, bin_size, bins)
             en == BinOf(bars[k].high, price_min, bin_size, bins)
             share == Rat(bars[k].volume, en - st + 1)
         IN  Distribute(bars, k + 1,
                        [j \in DOMAIN acc |->
                            IF st <= j /\ j <= en THEN RAdd(acc[j], share) ELSE acc[j]],
                        price_min, bin_size, bins)

\* np.argmax: the first index holding the maximum
ArgMax(profile) ==
    CHOOSE j \in DOMAIN profile :
        /\ \A k \in DOMAIN profile : RLe(profile[k], profile[j])
        /\ \A k \in DOMAIN profile : k < j => RLt(profile[k], profile[j])

RECURSIVE RSum(_, _)
RSum(profile, n) ==
    IF n = 0 THEN <<0, 1>> ELSE RAdd(profile[n - 1], RSum(profile, n - 1))

\* lines 153-162: the target, the POC bin, the range and the volume the loop
\* starts from
EnterLoop(profile, value_area_pct) ==
    [low_bin |-> ArgMax(profile),
     high_bin |-> ArgMax(profile),
     current_volume |-> profile[ArgMax(profile)],
     target_volume |-> RMul(RSum(profile, Cardinality(DOMAIN profile)), value_area_pct),
     pc |-> "loop"]

\* a variant of LoopStep that expands towards the smaller volume
LoopStepTowardsSmaller(profile, st) ==
    LET n == Cardinality(DOMAIN profile)
        vol_above == IF st.high_bin + 1 < n THEN profile[st.high_bin + 1] ELSE <<0, 1>>
        vol_below == IF st.low_bin - 1 >= 0 THEN profile[st.low_bin - 1] ELSE <<0, 1>>
    IN  IF ~RLt(st.current_volume, st.target_volume) THEN [st EXCEPT !.pc = "exit"]
        ELSE IF RLe(vol_above, vol_below) /\ st.high_bin + 1 < n
        THEN [st EXCEPT !.high_bin = st.high_bin + 1,
                        !.current_volume = RAdd(st.current_volume, vol_above)]
        ELSE IF st.low_bin - 1 >= 0
        THEN [st EXCEPT !.low_bin = st.low_bin - 1,
                        !.current_volume = RAdd(st.current_volume, vol_below)]
        ELSE [st EXCEPT !.pc = "exit"]

\* one test of the while condition and one pass of the loop body, lines 164-177
LoopStep(profile, st) ==
    LET n == Cardinality(DOMAIN profile)
        vol_above == IF st.high_bin + 1 < n THEN profile[st.high_bin + 1] ELSE <<0, 1>>
        vol_below == IF st.low_bin - 1 >= 0 THEN profile[st.low_bin - 1] ELSE <<0, 1>>
    IN  IF ~RLt(st.current_volume, st.target_volume) THEN [st EXCEPT !.pc = "exit"]
        ELSE IF RLe(vol_below, vol_above) /\ st.high_bin + 1 < n
        THEN [st EXCEPT !.high_bin = st.high_bin + 1,
                        !.current_volume = RAdd(st.current_volume, vol_above)]
        ELSE IF st.low_bin - 1 >= 0
        THEN [st EXCEPT !.low_bin = st.low_bin - 1,
                        !.current_volume = RAdd(st.current_volume, vol_below)]
        ELSE [st EXCEPT !.pc = "exit"]

\* the loop of calculate_value_area, lines 164-177, run to its exit
RECURSIVE ExpandFrom(_, _)
ExpandFrom(profile, st) ==
    IF st.pc = "exit" THEN <<st.low_bin, st.high_bin>>
    ELSE ExpandFrom(profile, LoopStep(profile, st))

Expand(profile, target_volume, low_bin, high_bin, current_volume) ==
    ExpandFrom(profile, [low_bin |-> low_bin, high_bin |-> high_bin,
                         current_volume |-> current_volume,
                         target_volume |-> target_volume, pc |-> "loop"])

\* a variant of CalculateValueArea whose upper edge is the lower edge of its bin
CalculateValueAreaNoWidth(profile, price_bins, bin_size, value_area_pct) ==
    LET n == Cardinality(DOMAIN profile)
        target_volume == RMul(RSum(profile, n), value_area_pct)
        poc_bin == ArgMax(profile)
        area == Expand(profile, target_volume, poc_bin, poc_bin, profile[poc_bin])
    IN  [vah |-> price_bins[area[2]], val |-> price_bins[area[1]]]

\* calculate_value_area, lines 132-182
CalculateValueArea(profile, price_bins, bin_size, value_area_pct) ==
    LET n == Cardinality(DOMAIN profile)
        target_volume == RMul(RSum(profile, n), value_area_pct)
        poc_bin == ArgMax(profile)
        area == Expand(profile, target_volume, poc_bin, poc_bin, profile[poc_bin])
    IN  [vah |-> RAdd(price_bins[area[2]], bin_size), val |-> price_bins[area[1]]]

\* find_hvn, lines 185-222
FindHvn(profile, price_bins, bin_size) ==
    LET n == Cardinality(DOMAIN profile)
        avg_volume == RDiv(RSum(profile, n), RInt(n))
        isLocalMax(j) ==
            /\ ~(j > 0 /\ RLe(profile[j], profile[j - 1]))
            /\ ~(j < n - 1 /\ RLe(profile[j], profile[j + 1]))
    IN  {RAdd(price_bins[j], RDiv(bin_size, <<2, 1>>)) :
            j \in {k \in DOMAIN profile :
                     /\ RLe(RMul(avg_volume, <<3, 2>>), profile[k])
                     /\ (isLocalMax(k) \/ RLe(RMul(avg_volume, <<2, 1>>), profile[k]))}}

\* find_lvn, lines 225-262
FindLvn(profile, price_bins, bin_size) ==
    LET n == Cardinality(DOMAIN profile)
        avg_volume == RDiv(RSum(profile, n), RInt(n))
        isLocalMin(j) ==
            /\ ~(j > 0 /\ RLe(profile[j - 1], profile[j]))
            /\ ~(j < n - 1 /\ RLe(profile[j + 1], profile[j]))
    IN  {RAdd(price_bins[j], RDiv(bin_size, <<2, 1>>)) :
            j \in {k \in DOMAIN profile :
                     /\ RLe(profile[k], RMul(avg_volume, <<1, 2>>))
                     /\ RLt(<<0, 1>>, profile[k])
                     /\ isLocalMin(k)}}

\* determine_regime, lines 265-306
RECURSIVE CloseSum(_, _, _)
CloseSum(bars, from, to) ==
    IF from > to THEN 0 ELSE bars[from].close + CloseSum(bars, from + 1, to)

DetermineRegime(bars, poc, vah, val) ==
    LET n == Len(bars)
        first_half == Rat(CloseSum(bars, n - 19, n - 10), 10)
        second_half == Rat(CloseSum(bars, n - 9, n), 10)
        trend_strength == RDiv(RSub(second_half, first_half), first_half)
        current_price == RInt(bars[n].close)
    IN  IF n < 20 THEN "ranging"
        ELSE IF RLt(RMul(vah, <<201, 200>>), current_price) THEN "breakout"
        ELSE IF RLt(current_price, RMul(val, <<199, 200>>)) THEN "breakout"
        ELSE IF RLt(<<1, 200>>, trend_strength) THEN "trending_up"
        ELSE IF RLt(trend_strength, <<0 - 1, 200>>) THEN "trending_down"
        ELSE "ranging"

\* lines 102-106: the dict comprehension; a later bin with the same key
\* replaces the earlier one
ProfileDict(profile, price_bins, bin_size) ==
    LET key(j) == RAdd(price_bins[j], RDiv(bin_size, <<2, 1>>))
        last(p) == CHOOSE j \in DOMAIN profile :
                      key(j) = p /\ \A k \in DOMAIN profile : key(k) = p => k <= j
    IN  [p \in {key(j) : j \in DOMAIN profile} |-> profile[last(p)]]

\* lines 49-54
EmptyProfile ==
    [poc |-> <<0, 1>>, vah |-> <<0, 1>>, val |-> <<0, 1>>, hvn |-> {}, lvn |-> {},
     profile |-> <<>>, regime |-> "ranging", current_position |-> "in_value"]

\* build_volume_profile, lines 33-129
BuildVolumeProfile(bars, bins, value_area_pct) ==
    IF bars = <<>> THEN EmptyProfile
    ELSE
      LET price_min == SeqMin(bars, 2, bars[1].low)
          price_max == SeqMax(bars, 2, bars[1].high)
          bin_size == BinSize(price_min, price_max, bins)
          price_bins == PriceBins(price_min, price_max, bins)
          volume_profile ==
              Distribute(bars, 1, [j \in 0..(bins - 1) |-> <<0, 1>>], price_min,
                         bin_size, bins)
          poc == RAdd(price_bins[ArgMax(volume_profile)], RDiv(bin_size, <<2, 1>>))
          area == CalculateValueArea(volume_profile, price_bins, bin_size,
                                     value_area_pct)
          current_price == RInt(bars[Len(bars)].close)
      IN  [poc |-> poc,
           vah |-> area.vah,
           val |-> area.val,
           hvn |-> FindHvn(volume_profile, price_bins, bin_size),
           lvn |-> FindLvn(volume_profile, price_bins, bin_size),
           profile |-> ProfileDict(volume_profile, price_bins, bin_size),
           regime |-> DetermineRegime(bars, poc, area.vah, area.val),
           current_position |->
               IF RLt(area.vah, current_price) THEN "above_vah"
               ELSE IF RLt(current_price, area.val) THEN "below_val"
               ELSE "in_value"]

(***************************************************************************)
(* Calls of build_volume_profile on windows drawn in the initial state     *)
(***************************************************************************)
MaxWindowLen == 2
MaxBins == 3

VPBars ==
    {b \in [low : {100, 101, 103}, high : {100, 101, 103}, close : {100, 101, 103},
            volume : {0, 1, 3}] :
        b.low <= b.high /\ b.close = b.high}

Windows == UNION {[1..n -> VPBars] : n \in 0..MaxWindowLen}

\* value_area_pct, line 36
ValueAreaPct == <<7, 10>>

\* the profiles handed to calculate_value_area itself: an array of one to
\* MaxBuckets volumes; the fraction is the default or, handed over as a
\* percentage, above 1
MaxBuckets == 4

BucketVolumes == {<<0, 1>>, <<1, 1>>, <<3, 1>>}

Profiles == UNION {[0..(n - 1) -> BucketVolumes] : n \in 1..MaxBuckets}

AreaFractions == {ValueAreaPct, <<3, 2>>}

BuildCalls == [fn : {"none"}, bars : Windows, bins : 1..MaxBins]

AreaCalls == [fn : {"none_yet"}, profile : Profiles, value_area_pct : AreaFractions]

VPInit ==
    /\ vp_call \in BuildCalls
    /\ pm_call = [fn |-> "off"]
    /\ portfolio = NewPortfolio
    /\ clock = 0
    /\ inp = "off"
    /\ capital = 0
    /\ equity_history = <<>>
    /\ trades = <<>>
    /\ open_positions = <<>>
    /\ pc = "off"
    /\ data = <<>>
    /\ i = 0
    /\ calls = 0
    /\ opens = <<>>
    /\ results = <<>>
    /\ shared = {}
    /\ of_call = [fn |-> "off"]
    /\ crew_call = [fn |-> "off"]
    /\ crew_pc = "off"
    /\ tasks = <<>>
    /\ agent_results = <<>>
    /\ decisions = <<>>

VPBuild ==
    /\ vp_call.fn = "none"
    /\ vp_call' = [fn |-> "build_volume_profile",
                   bars |-> vp_call.bars,
                   bins |-> vp_call.bins,
                   ret |-> BuildVolumeProfile(vp_call.bars, vp_call.bins, ValueAreaPct)]
    /\ UNCHANGED <<of_vars, crew_vars, bt_vars, pm_vars>>

VPNext == VPBuild

SpecVP == VPInit /\ [][VPNext]_vars

\* calls of calculate_value_area on profiles drawn in the initial state
VAInit ==
    /\ vp_call \in AreaCalls
    /\ pm_call = [fn |-> "off"]
    /\ portfolio = NewPortfolio
    /\ clock = 0
    /\ inp = "off"
    /\ capital = 0
    /\ equity_history = <<>>
    /\ trades = <<>>
    /\ open_positions = <<>>
    /\ pc = "off"
    /\ data = <<>>
    /\ i = 0
    /\ calls = 0
    /\ opens = <<>>
    /\ results = <<>>
    /\ shared = {}
    /\ of_call = [fn |-> "off"]
    /\ crew_call = [fn |-> "off"]
    /\ crew_pc = "off"
    /\ tasks = <<>>
    /\ agent_results = <<>>
    /\ decisions = <<>>

\* calculate_value_area, lines 153-162: up to the loop
VAStart ==
    /\ vp_call.fn = "none_yet"
    /\ vp_call' = [fn |-> "calculate_value_area",
                   profile |-> vp_call.profile,
                   value_area_pct |-> vp_call.value_area_pct,
                   poc_bin |-> ArgMax(vp_call.profile),
                   st |-> EnterLoop(vp_call.profile, vp_call.value_area_pct),
                   added |-> <<>>]
    /\ UNCHANGED <<of_vars, crew_vars, bt_vars, pm_vars>>

\* lines 164-177: one pass of the loop; `added` lists the buckets taken in
BucketAdded(st, next) ==
    IF next.high_bin # st.high_bin THEN <<next.high_bin>>
    ELSE IF next.low_bin # st.low_bin THEN <<next.low_bin>>
    ELSE <<>>

VALoop ==
    /\ vp_call.fn = "calculate_value_area"
    /\ vp_call.st.pc = "loop"
    /\ \E next \in {LoopStep(vp_call.profile, vp_call.st)} :
           vp_call' = [vp_call EXCEPT !.st = next,
                                      !.added = vp_call.added \o BucketAdded(vp_call.st, next)]
    /\ UNCHANGED <<of_vars, crew_vars, bt_vars, pm_vars>>

\* lines 179-182: the edges returned; the bins of the call are one wide and
\* start at 100
VAReturn ==
    /\ vp_call.fn = "calculate_value_area"
    /\ vp_call.st.pc = "exit"
    /\ vp_call' = [fn |-> "returned",
                   profile |-> vp_call.profile,
                   value_area_pct |-> vp_call.value_area_pct,
                   poc_bin |-> vp_call.poc_bin,
                   st |-> vp_call.st,
                   added |-> vp_call.added,
                   ret |-> [vah |-> RAdd(RInt(100 + vp_call.st.high_bin), <<1, 1>>),
                            val |-> RInt(100 + vp_call.st.low_bin)]]
    /\ UNCHANGED <<of_vars, crew_vars, bt_vars, pm_vars>>

VANext ==
    \/ VAStart
    \/ VALoop
    \/ VAReturn

\* a call that has entered the function keeps running: the code is sequential
\* and nothing suspends it
SpecVA == VAInit /\ [][VANext]_vars /\ WF_vars(VALoop) /\ WF_vars(VAReturn)


(***************************************************************************)
(* Properties of the volume profile (SpecVP)                               *)
(***************************************************************************)
\* every bar of the window has its low and its high at one and the same price
ZeroRange(bars) ==
    \A j, k \in 1..Len(bars) : bars[j].low = bars[k].high

\* C9: for every bar window, the empty window and the window of zero price range
\* included, the profile build_volume_profile returns has val <= poc <= vah.
C9_ValueAreaOrdering ==
    vp_call.fn = "build_volume_profile"
        => /\ RLe(vp_call.ret.val, vp_call.ret.poc)
           /\ RLe(vp_call.ret.poc, vp_call.ret.vah)

\* a profile was built of a window of zero range that traded volume
C9_Witness ==
    /\ vp_call.fn = "build_volume_profile"
    /\ vp_call.bars # <<>>
    /\ ZeroRange(vp_call.bars)
    /\ vp_call.bars[1].volume > 0
    /\ vp_call.bins > 1
    /\ RLt(vp_call.ret.val, vp_call.ret.poc)
    /\ RLt(vp_call.ret.poc, vp_call.ret.vah)

RECURSIVE MappingSum(_, _)
MappingSum(f, S) ==
    IF S = {} THEN <<0, 1>>
    ELSE LET p == CHOOSE q \in S : TRUE
         IN  RAdd(f[p], MappingSum(f, S \ {p}))

RECURSIVE VolumeSum(_)
VolumeSum(bars) ==
    IF bars = <<>> THEN 0 ELSE Head(bars).volume + VolumeSum(Tail(bars))

\* C10: for any non-empty bar window with low <= high on every bar, the window
\* of zero price range included, the volumes of the returned profile mapping
\* (price -> volume) sum to the sum of the bars' volumes.
C10_VolumeConserved ==
    (vp_call.fn = "build_volume_profile" /\ vp_call.bars # <<>>)
        => MappingSum(vp_call.ret.profile, DOMAIN vp_call.ret.profile)
               = RInt(VolumeSum(vp_call.bars))

\* what does hold: the volume is conserved when the window's range is not zero
\* or the profile has a single bin
C10_ConservedOffZeroRange ==
    (/\ vp_call.fn = "build_volume_profile"
     /\ vp_call.bars # <<>>
     /\ ~ZeroRange(vp_call.bars) \/ vp_call.bins = 1)
        => MappingSum(vp_call.ret.profile, DOMAIN vp_call.ret.profile)
               = RInt(VolumeSum(vp_call.bars))

\* a call of calculate_value_area is in its loop or past it
InArea == vp_call.fn \in {"calculate_value_area", "returned"}

\* the volume of buckets lo..hi of the profile
RECURSIVE RangeVolume(_, _, _)
RangeVolume(profile, lo, hi) ==
    IF lo > hi THEN <<0, 1>>
    ELSE RAdd(profile[lo], RangeVolume(profile, lo + 1, hi))

\* the selected range is buckets low_bin..high_bin of the profile, the POC
\* bucket among them, and current_volume is their volume
RangeAroundPoc(c) ==
    /\ 0 <= c.st.low_bin
    /\ c.st.low_bin <= c.poc_bin
    /\ c.poc_bin <= c.st.high_bin
    /\ c.st.high_bin < Cardinality(DOMAIN c.profile)
    /\ \A j \in DOMAIN c.profile : RLe(c.profile[j], c.profile[c.poc_bin])
    /\ c.st.current_volume = RangeVolume(c.profile, c.st.low_bin, c.st.high_bin)

\* the range covers every bucket of the profile
CoversAll(c) ==
    c.st.low_bin = 0 /\ c.st.high_bin = Cardinality(DOMAIN c.profile) - 1

\* the loop is left with the target reached, or with nothing left to add
ExitedRight(c) ==
    \/ RLe(RMul(RangeVolume(c.profile, 0, Cardinality(DOMAIN c.profile) - 1),
                c.value_area_pct),
           c.st.current_volume)
    \/ CoversAll(c)

\* from c to d the range grew by one bucket, the adjacent one above or the
\* adjacent one below, and no adjacent bucket holds more than the one added
GrewTowardsLarger(c, d) ==
    \/ /\ d.st.high_bin = c.st.high_bin + 1
       /\ d.st.low_bin = c.st.low_bin
       /\ c.st.low_bin > 0
             => RLe(c.profile[c.st.low_bin - 1], c.profile[d.st.high_bin])
    \/ /\ d.st.low_bin = c.st.low_bin - 1
       /\ d.st.high_bin = c.st.high_bin
       /\ c.st.high_bin + 1 < Cardinality(DOMAIN c.profile)
             => RLe(c.profile[c.st.high_bin + 1], c.profile[d.st.low_bin])

\* C24: calculate_value_area terminates for every profile; on exit the selected
\* buckets form one contiguous range containing the POC bucket, each step
\* having added the adjacent bucket (above or below) with the larger volume,
\* and the accumulated volume of the range is >= value_area_pct x total volume
\* unless the range already covers every bucket.
C24_ValueAreaExpansion ==
    /\ [][/\ InArea' => RangeAroundPoc(vp_call')
          /\ (InArea /\ vp_call.st.pc = "loop")
                => \/ vp_call'.st.pc = "exit" /\ ExitedRight(vp_call')
                   \/ vp_call'.st.pc = "loop" /\ GrewTowardsLarger(vp_call, vp_call')
          /\ (InArea /\ vp_call.st.pc = "exit")
                => /\ vp_call'.st = vp_call.st
                   /\ vp_call'.ret.val = RInt(100 + vp_call.st.low_bin)
                   /\ vp_call'.ret.vah = RInt(100 + vp_call.st.high_bin + 1)]_vars
    /\ (vp_call.fn = "calculate_value_area") ~> (vp_call.fn = "returned")

\* a call has returned whose loop took in buckets on both sides of the POC
\* bucket and ran out of buckets before it reached the target
C24_Witness ==
    /\ vp_call.fn = "returned"
    /\ Len(vp_call.added) >= 2
    /\ vp_call.st.low_bin < vp_call.poc_bin
    /\ vp_call.poc_bin < vp_call.st.high_bin
    /\ CoversAll(vp_call)
    /\ RLt(vp_call.st.current_volume, vp_call.st.target_volume)


(***************************************************************************)
(* Order flow (data/order_flow.py) and the Tape Reader                     *)
(* (agents/tape_reader.py)                                                 *)
(***************************************************************************)
NaN == "nan"

\* the two ways a Python call ends
Raised(exc) == [raised |-> TRUE, exc |-> exc]

Value(v) == [raised |-> FALSE, value |-> v]

\* a variant of EstimatedDelta whose body is open - close
EstimatedDeltaReversed(bar) ==
    RMul(RDiv(RInt(bar.open - bar.close),
              RInt(IF bar.high - bar.low = 0 THEN 1 ELSE bar.high - bar.low)),
         RInt(bar.volume))

\* lines 109-116: body / range.replace(0, 1) * volume
EstimatedDelta(bar) ==
    RMul(RDiv(RInt(bar.close - bar.open),
              RInt(IF bar.high - bar.low = 0 THEN 1 ELSE bar.high - bar.low)),
         RInt(bar.volume))

RECURSIVE SumFirst(_, _)
SumFirst(xs, n) == IF n = 0 THEN <<0, 1>> ELSE RAdd(SumFirst(xs, n - 1), xs[n])

\* line 119: cumsum()
CumSum(xs) == [k \in 1..Len(xs) |-> SumFirst(xs, k)]

\* line 122: Series.std() is the square root of the sample variance (n - 1
\* in the divisor), and NaN for fewer than two values
VarianceAbout(xs, mean) ==
    RDiv(SumFirst([k \in 1..Len(xs) |-> RMul(RSub(xs[k], mean), RSub(xs[k], mean))],
                  Len(xs)),
         RInt(Len(xs) - 1))

SampleVariance(xs) ==
    IF Len(xs) < 2 THEN NaN
    ELSE VarianceAbout(xs, RDiv(SumFirst(xs, Len(xs)), RInt(Len(xs))))

\* lines 123-127: the label of |x| in the bins (0, 0.5 std], (0.5 std, 1.5 std],
\* (1.5 std, inf]; 0 falls in no bin. |x| <= 0.5 std is written 4 x^2 <= var.
FourSquares(x) == RMul(RInt(4), RMul(x, x))

CutLabel(x, var) ==
    IF x = <<0, 1>> THEN NaN
    ELSE IF RLe(FourSquares(x), var) THEN "weak"
    ELSE IF RLe(FourSquares(x), RMul(RInt(9), var)) THEN "moderate"
    ELSE "strong"

\* lines 123-127: pd.cut refuses bin edges that repeat, which they do when the
\* standard deviation is 0 (edges 0, 0, 0, inf) or NaN (edges 0, NaN, NaN, inf)
CutWith(xs, var) ==
    IF var = NaN \/ var = <<0, 1>> THEN Raised("ValueError")
    ELSE Value([k \in 1..Len(xs) |-> CutLabel(xs[k], var)])

Cut(xs) == CutWith(xs, SampleVariance(xs))

\* estimate_delta_from_ohlcv, lines 94-129: the frame with its new columns
FrameOf(bars, deltas, cumulative, cut) ==
    IF cut.raised THEN cut
    ELSE Value([k \in 1..Len(bars) |->
                   [open |-> bars[k].open,
                    close |-> bars[k].close,
                    estimated_delta |-> deltas[k],
                    cumulative_delta |-> cumulative[k],
                    delta_strength |-> cut.value[k]]])

EstimateWith(bars, deltas) == FrameOf(bars, deltas, CumSum(deltas), Cut(deltas))

EstimateDeltaFromOhlcv(bars) ==
    EstimateWith(bars, [k \in 1..Len(bars) |-> EstimatedDelta(bars[k])])

\* analyze_effort_vs_result, lines 132-213
AnalyzeEffortVsResult(delta, candle_type, delta_strength) ==
    LET is_bullish_delta == RLt(<<0, 1>>, delta)
        is_bearish_delta == RLt(delta, <<0, 1>>)
        is_bullish_candle == candle_type = "bullish"
        is_bearish_candle == candle_type = "bearish"
    IN  IF is_bearish_delta /\ is_bullish_candle /\ delta_strength = "strong"
        THEN [signal_type |-> "bullish", pattern |-> "absorption",
              confidence |-> <<17, 20>>]
        ELSE IF is_bullish_delta /\ is_bearish_candle /\ delta_strength = "strong"
        THEN [signal_type |-> "bearish", pattern |-> "absorption",
              confidence |-> <<17, 20>>]
        ELSE IF is_bullish_delta /\ is_bullish_candle
        THEN [signal_type |-> "bullish", pattern |-> "continuation",
              confidence |-> <<13, 20>>]
        ELSE IF is_bearish_delta /\ is_bearish_candle
        THEN [signal_type |-> "bearish", pattern |-> "continuation",
              confidence |-> <<13, 20>>]
        ELSE [signal_type |-> "neutral", pattern |-> "continuation",
              confidence |-> <<3, 10>>]

\* Series.tail(n): the last n values
SeriesTail(xs, n) == SubSeq(xs, Len(xs) - Min(n, Len(xs)) + 1, Len(xs))

\* lines 242-243: iloc[-1] - iloc[0]
Trend(recent) == RSub(recent[Len(recent)], recent[1])

\* lines 247, 261: abs(delta_trend) / (abs(price_trend) + 1e-10). The 1e-10 is
\* smaller than any difference between the values of the model, so it decides
\* none of the comparisons made on the quotient and is left out of it.
DivergenceStrength(delta_trend, price_trend) ==
    RDiv(RAbs(delta_trend), RAbs(price_trend))

\* a variant of Diverges that also accepts a quotient of exactly 0.5
DivergesAtHalf(divergence_strength) == RLe(<<1, 2>>, divergence_strength)

\* lines 248, 262
Diverges(divergence_strength) == RLt(<<1, 2>>, divergence_strength)

\* lines 252, 266
ExhaustionConfidence(divergence_strength) ==
    RMin(<<9, 10>>, RAdd(<<1, 2>>, RMul(divergence_strength, <<2, 5>>)))

NoExhaustion == [detected |-> FALSE]

\* lines 248-257, 262-271
ExhaustionSignal(signal_type, divergence_strength) ==
    IF Diverges(divergence_strength)
    THEN [detected |-> TRUE, signal_type |-> signal_type, pattern |-> "exhaustion",
          confidence |-> ExhaustionConfidence(divergence_strength)]
    ELSE NoExhaustion

\* lines 245-273
ExhaustionOf(delta_trend, price_trend) ==
    IF RLt(<<0, 1>>, price_trend) /\ RLt(delta_trend, <<0, 1>>)
    THEN ExhaustionSignal("bearish", DivergenceStrength(delta_trend, price_trend))
    ELSE IF RLt(price_trend, <<0, 1>>) /\ RLt(<<0, 1>>, delta_trend)
    THEN ExhaustionSignal("bullish", DivergenceStrength(delta_trend, price_trend))
    ELSE NoExhaustion

\* detect_delta_exhaustion, lines 216-273
DetectDeltaExhaustion(cumulative_delta, price, lookback) ==
    IF Len(cumulative_delta) < lookback THEN NoExhaustion
    ELSE ExhaustionOf(Trend(SeriesTail(cumulative_delta, lookback)),
                      Trend(SeriesTail(price, lookback)))

\* analyze_orderflow passes lookback=10 (line 440)
Lookback == 10

\* lines 425-426
CandleType(latest) == IF latest.close > latest.open THEN "bullish" ELSE "bearish"

DeltaStrength(latest) ==
    IF latest.delta_strength # NaN THEN latest.delta_strength ELSE "moderate"

\* lines 443-461: the dictionary analyze_orderflow returns
AnalysisDict(latest, signal, exhaustion) ==
    [current_delta |-> latest.estimated_delta,
     cumulative_delta |-> latest.cumulative_delta,
     delta_strength |-> DeltaStrength(latest),
     candle_type |-> CandleType(latest),
     signal |-> [type |-> signal.signal_type,
                 pattern |-> signal.pattern,
                 confidence |-> signal.confidence],
     exhaustion |->
         [detected |-> exhaustion.detected,
          type |-> IF exhaustion.detected THEN exhaustion.signal_type ELSE "None",
          confidence |-> IF exhaustion.detected THEN exhaustion.confidence
                         ELSE <<0, 1>>]]

\* lines 424-441
AnalyzeLatest(frame, latest) ==
    AnalysisDict(latest,
                 AnalyzeEffortVsResult(latest.estimated_delta, CandleType(latest),
                                       DeltaStrength(latest)),
                 DetectDeltaExhaustion(
                     [k \in 1..Len(frame) |-> frame[k].cumulative_delta],
                     [k \in 1..Len(frame) |-> RInt(frame[k].close)],
                     Lookback))

\* lines 421-424: bars.iloc[-1] of an empty frame raises
AnalyzeEstimated(est) ==
    IF est.raised THEN est
    ELSE IF Len(est.value) = 0 THEN Raised("IndexError")
    ELSE Value(AnalyzeLatest(est.value, est.value[Len(est.value)]))

\* analyze_orderflow, lines 410-461
AnalyzeOrderflow(bars) == AnalyzeEstimated(EstimateDeltaFromOhlcv(bars))

\* TapeReaderAgent._determine_action, lines 164-173
DetermineAction(signal, confidence) ==
    IF RLt(confidence, <<1, 2>>) THEN "wait"
    ELSE IF signal = "bullish"
    THEN (IF RLt(confidence, <<3, 4>>) THEN "consider_long" ELSE "strong_long")
    ELSE IF signal = "bearish"
    THEN (IF RLt(confidence, <<3, 4>>) THEN "consider_short" ELSE "strong_short")
    ELSE "wait"

\* what data_fetcher.fetch_bars may do: raise, or hand back a frame of bars
FetchRaises == [raises |-> TRUE]

Frame(bars) == [raises |-> FALSE, bars |-> bars]

\* lines 127-146: direction, confidence and priority of the final signal
FinalSignal(analysis) ==
    IF analysis.exhaustion.detected
    THEN [direction |-> analysis.exhaustion.type,
          confidence |-> IF RLe(analysis.exhaustion.confidence,
                                analysis.signal.confidence)
                         THEN analysis.signal.confidence
                         ELSE analysis.exhaustion.confidence,
          priority |-> "high"]
    ELSE IF analysis.signal.pattern = "absorption"
    THEN [direction |-> analysis.signal.type,
          confidence |-> analysis.signal.confidence,
          priority |-> "high"]
    ELSE [direction |-> analysis.signal.type,
          confidence |-> analysis.signal.confidence,
          priority |-> IF RLt(<<3, 5>>, analysis.signal.confidence)
                       THEN "medium" ELSE "low"]

\* lines 121-154: the record of a successful analysis
SuccessDict(symbol, analysis, final) ==
    [symbol |-> symbol,
     status |-> "success",
     agent |-> "tape_reader",
     signal |-> analysis.signal,
     exhaustion |-> analysis.exhaustion,
     priority |-> final.priority,
     final_signal |->
         [direction |-> final.direction,
          confidence |-> final.confidence,
          action |-> DetermineAction(final.direction, final.confidence)]]

\* lines 119-154
TapeReaderSignal(symbol, res) ==
    IF res.raised THEN res
    ELSE Value(SuccessDict(symbol, res.value, FinalSignal(res.value)))

\* the body of the try block of TapeReaderAgent.analyze_symbol, lines 107-154
TapeReaderTry(symbol, fetched) ==
    IF fetched.raises THEN Raised("Exception")
    ELSE IF Len(fetched.bars) = 0
    THEN Value([symbol |-> symbol, status |-> "error",
                message |-> "No data available"])
    ELSE TapeReaderSignal(symbol, AnalyzeOrderflow(fetched.bars))

\* a variant of ExceptException that lets what the block raised go on
ExceptNothing(symbol, agent, res) == res

\* `except Exception` turns what the try block raised into a record:
\* tape_reader.py 156-162, chartist.py 168-174, macro_economist.py 307-313
ExceptException(symbol, agent, res) ==
    IF res.raised
    THEN Value([symbol |-> symbol, status |-> "error", message |-> res.exc,
                agent |-> agent])
    ELSE res

\* a variant of TapeReaderAnalyzeSymbol without the except clause
TapeReaderNoExcept(symbol, fetched) == TapeReaderTry(symbol, fetched)

\* TapeReaderAgent.analyze_symbol, lines 96-162
TapeReaderAnalyzeSymbol(symbol, fetched) ==
    ExceptException(symbol, "tape_reader", TapeReaderTry(symbol, fetched))

\* the strategy run_backtest of api.py hands to the engine, api.py 422-439: the
\* order-flow signal of the window, traded when its confidence is above 0.65;
\* the bare except turns whatever the analysis raised into NO_TRADE
ApiStrategySignal(signal, last_close) ==
    IF signal.type = "bullish" /\ RLt(<<13, 20>>, signal.confidence)
    THEN [action |-> "BUY", stop_loss |-> RMul(RInt(last_close), <<49, 50>>)]
    ELSE IF signal.type = "bearish" /\ RLt(<<13, 20>>, signal.confidence)
    THEN [action |-> "SELL", stop_loss |-> RMul(RInt(last_close), <<51, 50>>)]
    ELSE [action |-> "NO_TRADE"]

ApiStrategy(window, res) ==
    IF res.raised THEN [action |-> "NO_TRADE"]
    ELSE ApiStrategySignal(res.value.signal, window[Len(window)].close)

(***************************************************************************)
(* The order-flow calls                                                    *)
(***************************************************************************)
MaxSeriesLen == 3
MaxFetched == 2

\* the values of the series handed to detect_delta_exhaustion
DeltaValues == 0..2

PriceValues == 1..5

SeriesPairs ==
    UNION {[cumulative_delta : [1..n -> DeltaValues], price : [1..n -> PriceValues]] :
              n \in 0..MaxSeriesLen}

OFBar(o, h, l, c, v) == [open |-> o, high |-> h, low |-> l, close |-> c, volume |-> v]

\* bars: one with no range, full-bodied ones up and down, ones with wicks
OFBars ==
    {OFBar(2, 2, 2, 2, 1), OFBar(1, 3, 1, 3, 1), OFBar(1, 3, 1, 3, 2),
     OFBar(3, 3, 1, 1, 1), OFBar(2, 4, 0, 3, 4), OFBar(3, 4, 0, 2, 8)}

\* ten bars that gap one way and close the other: closes rise (dir = 1) while
\* every bar sells off, or closes fall (dir = -1) while every bar is bought
GapWindow(dir, step) ==
    [k \in 1..Lookback |->
        LET c == 50 + dir * step * k
            o == c + dir
        IN  OFBar(o, Max(o, c), Min(o, c), c, IF k % 2 = 1 THEN 1 ELSE 2)]

Fetched ==
    {FetchRaises}
    \cup {Frame(bars) : bars \in UNION {[1..n -> OFBars] : n \in 0..MaxFetched}}
    \cup {Frame(GapWindow(dir, step)) : dir \in {0 - 1, 1}, step \in {1, 2, 4}}

\* the windows handed to the strategy: every bar with its prices in 1..3, low <=
\* min(open, close), max(open, close) <= high, and no volume or some
MaxStrategyWindow == 2

StrategyBars ==
    {b \in [open : 1..3, high : 1..3, low : 1..3, close : 1..3, volume : {0, 2}] :
        /\ b.low <= Min(b.open, b.close)
        /\ Max(b.open, b.close) <= b.high}

StrategyWindows == UNION {[1..n -> StrategyBars] : n \in 1..MaxStrategyWindow}

OFInit ==
    /\ of_call \in
          [fn : {"none"}, op : {"detect_delta_exhaustion"}, series : SeriesPairs,
           lookback : 2..MaxSeriesLen]
          \cup [fn : {"none"}, op : {"analyze_symbol"}, fetched : Fetched]
          \cup [fn : {"none"}, op : {"strategy"}, window : StrategyWindows]
    /\ crew_call = [fn |-> "off"]
    /\ crew_pc = "off"
    /\ tasks = <<>>
    /\ agent_results = <<>>
    /\ decisions = <<>>
    /\ vp_call = [fn |-> "off"]
    /\ pm_call = [fn |-> "off"]
    /\ portfolio = NewPortfolio
    /\ clock = 0
    /\ inp = "off"
    /\ capital = 0
    /\ equity_history = <<>>
    /\ trades = <<>>
    /\ open_positions = <<>>
    /\ pc = "off"
    /\ data = <<>>
    /\ i = 0
    /\ calls = 0
    /\ opens = <<>>
    /\ results = <<>>
    /\ shared = {}

OFDetect ==
    /\ of_call.fn = "none"
    /\ of_call.op = "detect_delta_exhaustion"
    /\ of_call' =
          [fn |-> "detect_delta_exhaustion",
           series |-> of_call.series,
           lookback |-> of_call.lookback,
           ret |-> DetectDeltaExhaustion(
                       [k \in DOMAIN of_call.series.cumulative_delta |->
                           RInt(of_call.series.cumulative_delta[k])],
                       [k \in DOMAIN of_call.series.price |->
                           RInt(of_call.series.price[k])],
                       of_call.lookback)]
    /\ UNCHANGED <<bt_vars, pm_vars, vp_vars, crew_vars>>

OFAnalyze ==
    /\ of_call.fn = "none"
    /\ of_call.op = "analyze_symbol"
    /\ of_call' =
          [fn |-> "analyze_symbol",
           fetched |-> of_call.fetched,
           out |-> TapeReaderAnalyzeSymbol(Symbol, of_call.fetched)]
    /\ UNCHANGED <<bt_vars, pm_vars, vp_vars, crew_vars>>

\* one call of the strategy; `analysis` is what its analyze_orderflow call gave
OFStrategy ==
    /\ of_call.fn = "none"
    /\ of_call.op = "strategy"
    /\ \E res \in {AnalyzeOrderflow(of_call.window)} :
           of_call' = [fn |-> "strategy",
                       window |-> of_call.window,
                       analysis |-> res,
                       ret |-> ApiStrategy(of_call.window, res)]
    /\ UNCHANGED <<bt_vars, pm_vars, vp_vars, crew_vars>>

OFNext ==
    \/ OFDetect
    \/ OFAnalyze
    \/ OFStrategy

SpecOF == OFInit /\ [][OFNext]_vars


(***************************************************************************)
(* Properties of the order-flow analysis (SpecOF)                          *)
(***************************************************************************)
DetectCall == of_call.fn = "detect_delta_exhaustion"

StrictlyIncreasing(xs) == \A k \in 1..(Len(xs) - 1) : xs[k] < xs[k + 1]

StrictlyDecreasing(xs) == \A k \in 1..(Len(xs) - 1) : xs[k] > xs[k + 1]

\* the change of a series over its last `lookback` values
Change(xs, lookback) == xs[Len(xs)] - xs[Len(xs) - lookback + 1]

\* the window has at least `lookback` bars
FullWindow == Len(of_call.series.cumulative_delta) >= of_call.lookback

\* cumulative delta falls and close rises all along the window
FadingRally ==
    /\ FullWindow
    /\ StrictlyDecreasing(of_call.series.cumulative_delta)
    /\ StrictlyIncreasing(of_call.series.price)

\* the mirror image: close falls and cumulative delta rises
FadingSellOff ==
    /\ FullWindow
    /\ StrictlyIncreasing(of_call.series.cumulative_delta)
    /\ StrictlyDecreasing(of_call.series.price)

DeltaChange == Abs(Change(of_call.series.cumulative_delta, of_call.lookback))

PriceChange == Abs(Change(of_call.series.price, of_call.lookback))

Reports(signal_type) ==
    /\ of_call.ret.detected
    /\ of_call.ret.signal_type = signal_type
    /\ of_call.ret.pattern = "exhaustion"
    /\ RLe(<<1, 2>>, of_call.ret.confidence)

\* C12 as the specification words it: in a window of at least `lookback` bars
\* where cumulative delta strictly decreases while close strictly increases by
\* more than twice the delta decline, detect_delta_exhaustion reports bearish
\* exhaustion with confidence >= 0.5; in the mirrored window it reports bullish
\* exhaustion.
C12_AsStated ==
    DetectCall =>
        /\ (FadingRally /\ PriceChange > 2 * DeltaChange) => Reports("bearish")
        /\ (FadingSellOff /\ PriceChange > 2 * DeltaChange) => Reports("bullish")

\* C12, amended: in a window of at least `lookback` bars where cumulative delta
\* strictly decreases while close strictly increases, by less than twice the
\* delta decline over the last `lookback` bars, detect_delta_exhaustion reports
\* bearish exhaustion with a confidence between 0.5 and 0.9; in the mirrored
\* window it reports bullish exhaustion; it reports nothing when the window is
\* shorter than `lookback` or the delta change is at most half the price change.
C12_ExhaustionSymmetry ==
    DetectCall =>
        /\ (FadingRally /\ PriceChange < 2 * DeltaChange)
              => Reports("bearish") /\ RLe(of_call.ret.confidence, <<9, 10>>)
        /\ (FadingSellOff /\ PriceChange < 2 * DeltaChange)
              => Reports("bullish") /\ RLe(of_call.ret.confidence, <<9, 10>>)
        /\ (~FullWindow \/ 2 * DeltaChange <= PriceChange) => ~of_call.ret.detected

\* a rally on falling delta, longer than the lookback, has been reported; so has
\* its mirror image in another call
C12_Witness ==
    /\ DetectCall
    /\ Len(of_call.series.price) > of_call.lookback
    /\ \/ FadingRally /\ Reports("bearish")
       \/ FadingSellOff /\ Reports("bullish")
    /\ PriceChange < 2 * DeltaChange

AnalyzeCall == of_call.fn = "analyze_symbol"

\* every bar of the window has the same estimated delta
AllEqualDelta(bars) ==
    \A j, k \in 1..Len(bars) : EstimatedDelta(bars[j]) = EstimatedDelta(bars[k])

\* the fetched window is empty, has a single bar, or has a standard deviation of
\* estimated delta that is zero
Degenerate ==
    /\ ~of_call.fetched.raises
    /\ \/ Len(of_call.fetched.bars) <= 1
       \/ AllEqualDelta(of_call.fetched.bars)

\* C16: TapeReaderAgent.analyze_symbol never raises to its caller; for an empty
\* window, a single-bar window and a window whose bars all have the same
\* estimated delta it returns a record with status "error" and a message.
C16_NeverRaises ==
    AnalyzeCall =>
        /\ ~of_call.out.raised
        /\ Degenerate => /\ of_call.out.value.status = "error"
                         /\ "message" \in DOMAIN of_call.out.value

\* pd.cut raised on a two-bar window of equal deltas and the caller got an
\* error record
C16_Witness ==
    /\ AnalyzeCall
    /\ ~of_call.fetched.raises
    /\ Len(of_call.fetched.bars) = 2
    /\ AllEqualDelta(of_call.fetched.bars)
    /\ ~of_call.out.raised
    /\ of_call.out.value.status = "error"
    /\ of_call.out.value.message = "ValueError"

\* a call of the strategy has returned
StrategyCall == of_call.fn = "strategy"

\* C28: for every bar window whose bars have low <= min(open, close) <=
\* max(open, close) <= high and volume >= 0, the sign of the latest bar's
\* estimated_delta never contradicts the candle direction, so the signal
\* analyze_orderflow returns never has pattern 'absorption' and its confidence
\* is 0.65 or 0.3; hence no window makes a strategy that requires a signal
\* confidence above 0.65 return BUY or SELL.
C28_AbsorptionUnreachable ==
    StrategyCall =>
        /\ ~of_call.analysis.raised =>
              /\ RLt(<<0, 1>>, of_call.analysis.value.current_delta)
                    => of_call.analysis.value.candle_type = "bullish"
              /\ RLt(of_call.analysis.value.current_delta, <<0, 1>>)
                    => of_call.analysis.value.candle_type = "bearish"
              /\ of_call.analysis.value.signal.pattern # "absorption"
              /\ of_call.analysis.value.signal.confidence \in {<<13, 20>>, <<3, 10>>}
        /\ of_call.ret.action = "NO_TRADE"

\* the strategy was called on a window whose latest bar closed up on a delta
\* classified strong: a bullish continuation at 0.65, and no trade
C28_Witness ==
    /\ StrategyCall
    /\ ~of_call.analysis.raised
    /\ of_call.analysis.value.delta_strength = "strong"
    /\ of_call.analysis.value.candle_type = "bullish"
    /\ of_call.analysis.value.signal.type = "bullish"
    /\ of_call.analysis.value.signal.confidence = <<13, 20>>
    /\ of_call.ret.action = "NO_TRADE"


(***************************************************************************)
(* TradingCrew (agents/crew.py): three analyses in threads, then the       *)
(* decision                                                                *)
(***************************************************************************)
Agents == {"tape_reader", "chartist", "macro_economist"}

\* chartist.py 139-166: the record of a successful analysis
ChartistSuccess(direction, strength) ==
    [symbol |-> Symbol, status |-> "success", agent |-> "chartist",
     current_price |-> <<448, 1>>,
     key_levels |-> {<<445, 1>>, <<455, 1>>},
     context |-> [direction |-> direction, strength |-> strength]]

\* what the try block of ChartistAgent.analyze_symbol (chartist.py 115-166)
\* may do: raise, return the no-data record (121-126), or return an analysis
ChartistTry ==
    {Raised("Exception"),
     Value([symbol |-> Symbol, status |-> "error",
            message |-> "No HTF data available"]),
     Value(ChartistSuccess("bearish_breakout", <<1, 1>>)),
     Value(ChartistSuccess("bullish", <<7, 10>>)),
     Value(ChartistSuccess("neutral", <<1, 2>>))}

\* ChartistAgent.analyze_symbol, chartist.py 96-174
ChartistAnalyzeSymbol(symbol, body) == ExceptException(symbol, "chartist", body)

\* macro_economist.py 292-305
MacroSuccess(direction, confidence, trading_allowed) ==
    [symbol |-> Symbol, status |-> "success", agent |-> "macro_economist",
     macro_signal |-> [direction |-> direction, confidence |-> confidence,
                       trading_allowed |-> trading_allowed]]

\* what the try block of MacroEconomistAgent.analyze_symbol
\* (macro_economist.py 269-305) may do
MacroTry ==
    {Raised("Exception"),
     Value(MacroSuccess("avoid", <<9, 10>>, FALSE)),
     Value(MacroSuccess("bullish", <<4, 5>>, TRUE)),
     Value(MacroSuccess("bearish", <<4, 5>>, TRUE)),
     Value(MacroSuccess("neutral", <<1, 2>>, TRUE))}

\* MacroEconomistAgent.analyze_symbol, macro_economist.py 258-313
MacroAnalyzeSymbol(symbol, body) == ExceptException(symbol, "macro_economist", body)

\* the frames the Tape Reader may be handed
CrewFetched ==
    {FetchRaises, Frame(<<>>), Frame(<<OFBar(1, 3, 1, 3, 1)>>),
     Frame(<<OFBar(1, 3, 1, 3, 1), OFBar(1, 3, 1, 3, 2)>>), Frame(GapWindow(1, 2))}

\* the ways the function handed to each thread may end (crew.py 57-59)
Outcomes(agent) ==
    CASE agent = "tape_reader" ->
             {TapeReaderAnalyzeSymbol(Symbol, f) : f \in CrewFetched}
      [] agent = "chartist" ->
             {ChartistAnalyzeSymbol(Symbol, b) : b \in ChartistTry}
      [] agent = "macro_economist" ->
             {MacroAnalyzeSymbol(Symbol, b) : b \in MacroTry}

\* portfolio_manager.py 141-142
ExtractTapeReader(r) ==
    IF "final_signal" \in DOMAIN r
    THEN [direction |-> r.final_signal.direction,
          confidence |-> r.final_signal.confidence]
    ELSE [direction |-> "neutral", confidence |-> <<0, 1>>]

\* portfolio_manager.py 144-145, 386, 389
ExtractChartist(r) ==
    [direction |-> IF "context" \in DOMAIN r THEN r.context.direction ELSE "neutral",
     strength |-> IF "context" \in DOMAIN r THEN r.context.strength ELSE <<0, 1>>,
     current_price |-> IF "current_price" \in DOMAIN r THEN r.current_price
                       ELSE <<100, 1>>,
     key_levels |-> IF "key_levels" \in DOMAIN r THEN r.key_levels ELSE {}]

\* portfolio_manager.py 147-149
ExtractMacro(r) ==
    IF "macro_signal" \in DOMAIN r
    THEN [direction |-> r.macro_signal.direction,
          confidence |-> r.macro_signal.confidence,
          trading_allowed |-> IF r.macro_signal.trading_allowed THEN "true"
                              ELSE "false"]
    ELSE [direction |-> "neutral", confidence |-> <<0, 1>>,
          trading_allowed |-> "missing"]

\* the signals aggregate_signals works on, given the three records
Extracted(rs) ==
    [tape_reader |-> ExtractTapeReader(rs["tape_reader"]),
     chartist |-> ExtractChartist(rs["chartist"]),
     macro_economist |-> ExtractMacro(rs["macro_economist"])]

NoResult == [status |-> "none"]

\* a TradingCrew about to be asked for an analysis, by a caller that has an
\* event loop running in its thread (api.py 265-300, 524-534: the async
\* endpoints) or has none (demo.py 128)
CrewInit ==
    /\ crew_call \in [fn : {"none"}, loop_running : BOOLEAN]
    /\ crew_pc = "idle"
    /\ tasks = [a \in Agents |-> "none"]
    /\ agent_results = [a \in Agents |-> NoResult]
    /\ decisions = <<>>
    /\ of_call = [fn |-> "off"]
    /\ vp_call = [fn |-> "off"]
    /\ pm_call = [fn |-> "off"]
    /\ portfolio = NewPortfolio
    /\ clock = 0
    /\ inp = "off"
    /\ capital = 0
    /\ equity_history = <<>>
    /\ trades = <<>>
    /\ open_positions = <<>>
    /\ pc = "off"
    /\ data = <<>>
    /\ i = 0
    /\ calls = 0
    /\ opens = <<>>
    /\ results = <<>>
    /\ shared = {}

\* crew.py 78-79 and 56-62: run_until_complete refuses to run inside a running
\* loop (RuntimeError) before the coroutine starts; otherwise the three
\* functions are handed to threads and gathered
CrewAnalyzeSymbol ==
    /\ crew_pc = "idle"
    /\ IF crew_call.loop_running
       THEN /\ crew_pc' = "raised"
            /\ crew_call' = [fn |-> "analyze_symbol",
                             loop_running |-> crew_call.loop_running,
                             out |-> Raised("RuntimeError")]
            /\ tasks' = tasks
       ELSE /\ crew_pc' = "gather"
            /\ crew_call' = [fn |-> "analyze_symbol",
                             loop_running |-> crew_call.loop_running]
            /\ tasks' = [a \in Agents |-> "pending"]
    /\ UNCHANGED <<agent_results, decisions, bt_vars, pm_vars, vp_vars, of_vars>>

\* a pool thread takes up one of the functions
ThreadStart(a) ==
    /\ tasks[a] = "pending"
    /\ tasks' = [tasks EXCEPT ![a] = "running"]
    /\ UNCHANGED <<crew_call, crew_pc, agent_results, decisions,
                   bt_vars, pm_vars, vp_vars, of_vars>>

\* the function returns its record, or raises, in its thread
ThreadFinish(a) ==
    /\ tasks[a] = "running"
    /\ \E out \in Outcomes(a) :
          IF out.raised
          THEN /\ tasks' = [tasks EXCEPT ![a] = "raised"]
               /\ agent_results' = agent_results
          ELSE /\ tasks' = [tasks EXCEPT ![a] = "done"]
               /\ agent_results' = [agent_results EXCEPT ![a] = out.value]
    /\ UNCHANGED <<crew_call, crew_pc, decisions, bt_vars, pm_vars, vp_vars, of_vars>>

\* crew.py 62-67: gather returns the three records once all are in; without
\* return_exceptions it raises as soon as one of the functions has raised
Gather ==
    /\ crew_pc = "gather"
    /\ IF \E a \in Agents : tasks[a] = "raised"
       THEN /\ crew_pc' = "raised"
            /\ crew_call' = [fn |-> "analyze_symbol",
                             loop_running |-> crew_call.loop_running,
                             out |-> Raised("Exception")]
       ELSE /\ \A a \in Agents : tasks[a] = "done"
            /\ crew_pc' = "decide"
            /\ crew_call' = crew_call
    /\ UNCHANGED <<tasks, agent_results, decisions, bt_vars, pm_vars, vp_vars, of_vars>>

\* crew.py 83-102: the decision on the three records, and the result
Decide ==
    /\ crew_pc = "decide"
    /\ \E sig \in {Extracted(agent_results)} :
       \E decision \in {MakeTradeDecision(Config, portfolio, Symbol, sig.tape_reader,
                                          sig.chartist, sig.macro_economist,
                                          NoPrice, NoMatrix, clock + 1)} :
          /\ decisions' = Append(decisions,
                                 [tasks |-> tasks, signals |-> sig, ret |-> decision])
          /\ crew_call' = [fn |-> "analyze_symbol",
                           loop_running |-> crew_call.loop_running,
                           out |-> Value([symbol |-> Symbol,
                                          agents |-> agent_results,
                                          decision |-> decision])]
    /\ crew_pc' = "returned"
    /\ clock' = clock + 1
    /\ UNCHANGED <<tasks, agent_results, inp, capital, equity_history, trades,
                   open_positions, pc, data, i, calls, opens, results, shared,
                   pm_vars, vp_vars, of_vars>>

CrewNext ==
    \/ CrewAnalyzeSymbol
    \/ \E a \in Agents : ThreadStart(a)
    \/ \E a \in Agents : ThreadFinish(a)
    \/ Gather
    \/ Decide

SpecCrew == CrewInit /\ [][CrewNext]_vars

(***************************************************************************)
(* Properties of the crew (SpecCrew)                                       *)
(***************************************************************************)
\* the analysis of agent a ended in an error record
Failed(a) == agent_results[a].status = "error"

Succeeded(a) == agent_results[a].status = "success"

ExactlyOneFailed ==
    /\ Cardinality({a \in Agents : Failed(a)}) = 1
    /\ Cardinality({a \in Agents : Succeeded(a)}) = 2

\* the signal of agent a went into the aggregation as neutral with confidence 0
EnteredNeutral(a) ==
    /\ decisions[1].signals[a].direction = "neutral"
    /\ IF a = "chartist" THEN decisions[1].signals[a].strength = <<0, 1>>
       ELSE decisions[1].signals[a].confidence = <<0, 1>>

\* the call has ended, with a result or with an exception
CallEnded == crew_pc \in {"returned", "raised"}

\* C13: an analysis that fails leaves the other two as they are and aborts
\* nothing; no exception of an analysis reaches the gathering, the aggregation or
\* the caller; and when exactly one of the three has failed, the call returns a
\* decision record, made once, on three finished analyses, into which the failed
\* source went as direction neutral with confidence 0.
C13_DegradedSignal ==
    [][/\ \A a \in Agents :
             (tasks[a] = "running" /\ tasks'[a] = "done" /\ Failed(a)')
                 => /\ crew_pc' = crew_pc
                    /\ \A b \in Agents \ {a} :
                           tasks'[b] = tasks[b] /\ agent_results'[b] = agent_results[b]
       /\ \A a \in Agents : tasks'[a] # "raised"
       /\ crew_pc' = "raised" => crew_call'.loop_running
       /\ (ExactlyOneFailed' /\ CallEnded')
             => /\ crew_pc' = "returned"
                /\ ~crew_call'.out.raised
                /\ Len(decisions') = 1
                /\ \A a \in Agents : tasks'[a] = "done"
                /\ \A a \in Agents : Failed(a)' => EnteredNeutral(a)'
                /\ crew_call'.out.value.decision = decisions'[1].ret
                /\ "action" \in DOMAIN decisions'[1].ret]_vars

\* the macro analysis alone failed, the other two finished with their signals,
\* and the call returned a SELL decision
C13_Witness ==
    /\ crew_pc = "returned"
    /\ ExactlyOneFailed
    /\ Failed("macro_economist")
    /\ agent_results["macro_economist"].message = "Exception"
    /\ decisions[1].ret.action = "SELL"

\* C14: make_trade_decision is invoked exactly once per analyze_symbol call, and
\* only after all three analyses have produced their record.
C14_FanOutBarrier ==
    /\ \A k \in 1..Len(decisions) : \A a \in Agents : decisions[k].tasks[a] = "done"
    /\ Len(decisions) <= 1
    /\ CallEnded => Len(decisions) = 1

\* what does hold: the decision is never made on fewer than three records nor
\* twice, and it is made once in every call that dispatches the analyses
C14_BarrierWhenDispatched ==
    /\ \A k \in 1..Len(decisions) : \A a \in Agents : decisions[k].tasks[a] = "done"
    /\ Len(decisions) <= 1
    /\ (CallEnded /\ ~crew_call.loop_running) => Len(decisions) = 1
    /\ (CallEnded /\ crew_call.loop_running)
          => Len(decisions) = 0 /\ \A a \in Agents : tasks[a] = "none"

\* C30: TradingCrew.analyze_symbol completes and returns a decision record both
\* when called from plain synchronous code and when called from inside a
\* coroutine that is already running on the event loop, as the async
\* /agents/analyze endpoints call it; it does not fail because the loop it
\* drives with run_until_complete is already running.
C30_FanOutFromApi ==
    CallEnded =>
        /\ crew_pc = "returned"
        /\ ~crew_call.out.raised
        /\ crew_call.out.value.decision = decisions[1].ret

\* what does hold: called from synchronous code the call returns its decision
\* record; called on a running loop it raises RuntimeError before any analysis
\* has been handed to a thread
C30_ReturnsOffTheLoop ==
    CallEnded =>
        IF crew_call.loop_running
        THEN /\ crew_pc = "raised"
             /\ crew_call.out = Raised("RuntimeError")
             /\ \A a \in Agents : tasks[a] = "none"
        ELSE /\ crew_pc = "returned"
             /\ ~crew_call.out.raised
             /\ crew_call.out.value.decision = decisions[1].ret

====
